---------------------------- MODULE Spec2Model ----------------------------
(***************************************************************************)
(* Role-based access control, permission cache and guard chain of the      *)
(* university finance backend (app/core/rbac.py, app/core/cache.py,        *)
(* app/services/*.py, app/routers/*.py).                                   *)
(***************************************************************************)
EXTENDS Integers, Sequences, FiniteSets, TLC

VARIABLES users, departments, budgets, transactions, cache, resp, call, result

vars == <<users, departments, budgets, transactions, cache, resp, call, result>>

dbVars == <<users, departments, budgets, transactions>>

(***************************************************************************)
(* Bounds of the model.                                                    *)
(***************************************************************************)
NumUsers == 2

NumDepts == 2

NumBudgets == 1

NumTransactions == 1

MaxAmount == 2

UserIds == 1..NumUsers

DeptIds == 1..NumDepts

BudgetIds == 1..NumBudgets

TransactionIds == 1..NumTransactions

Amounts == 1..MaxAmount

\* Python's None for an Optional[UUID] column (User.department_id).
None == 0

Scopes == DeptIds \cup {None}

(***************************************************************************)
(* app/core/rbac.py: Role, Permission, ROLE_HIERARCHY, ROLE_PERMISSIONS.   *)
(* Enum members are named by their Python names; RoleValue and             *)
(* PermissionValue give the string each member carries.                    *)
(***************************************************************************)
RoleValue ==
    [ADMIN |-> "admin", FINANCE_MANAGER |-> "finance_manager",
     DEPARTMENT_HEAD |-> "department_head", VIEWER |-> "viewer"]

RoleEnum == DOMAIN RoleValue

PermissionValue ==
    [CREATE_USER |-> "create_user", READ_USER |-> "read_user",
     UPDATE_USER |-> "update_user", DELETE_USER |-> "delete_user",
     CREATE_DEPARTMENT |-> "create_department", READ_DEPARTMENT |-> "read_department",
     UPDATE_DEPARTMENT |-> "update_department", DELETE_DEPARTMENT |-> "delete_department",
     CREATE_BUDGET |-> "create_budget", READ_BUDGET |-> "read_budget",
     UPDATE_BUDGET |-> "update_budget", DELETE_BUDGET |-> "delete_budget",
     CREATE_TRANSACTION |-> "create_transaction", READ_TRANSACTION |-> "read_transaction",
     UPDATE_TRANSACTION |-> "update_transaction", DELETE_TRANSACTION |-> "delete_transaction",
     CREATE_REPORT |-> "create_report", READ_REPORT |-> "read_report",
     DELETE_REPORT |-> "delete_report",
     READ_AUDIT |-> "read_audit", MANAGE_AUDIT |-> "manage_audit"]

PermissionEnum == DOMAIN PermissionValue

\* Role(value): the member carrying the value; the constructor raises
\* ValueError for any other value.
IsRoleValue(v) == \E r \in RoleEnum : RoleValue[r] = v

Role(v) == CHOOSE r \in RoleEnum : RoleValue[r] = v

\* Permission(value), likewise.
IsPermissionValue(v) == \E p \in PermissionEnum : PermissionValue[p] = v

Permission(v) == CHOOSE p \in PermissionEnum : PermissionValue[p] = v

ROLE_HIERARCHY ==
    [ADMIN |-> {"FINANCE_MANAGER", "DEPARTMENT_HEAD", "VIEWER"},
     FINANCE_MANAGER |-> {"DEPARTMENT_HEAD", "VIEWER"},
     DEPARTMENT_HEAD |-> {"VIEWER"},
     VIEWER |-> {}]

ROLE_PERMISSIONS_NoManageAudit ==
    [ADMIN |-> PermissionEnum \ {"MANAGE_AUDIT"},
     FINANCE_MANAGER |->
        PermissionEnum \ {"CREATE_USER", "UPDATE_USER", "DELETE_USER",
                          "DELETE_REPORT", "READ_AUDIT", "MANAGE_AUDIT"},
     DEPARTMENT_HEAD |->
        {"READ_USER", "READ_DEPARTMENT",
         "CREATE_BUDGET", "READ_BUDGET", "UPDATE_BUDGET",
         "CREATE_TRANSACTION", "READ_TRANSACTION", "UPDATE_TRANSACTION",
         "READ_REPORT"},
     VIEWER |->
        {"READ_USER", "READ_DEPARTMENT", "READ_BUDGET", "READ_TRANSACTION",
         "READ_REPORT"}]

ROLE_PERMISSIONS ==
    [ADMIN |->
        {"CREATE_USER", "READ_USER", "UPDATE_USER", "DELETE_USER",
         "CREATE_DEPARTMENT", "READ_DEPARTMENT", "UPDATE_DEPARTMENT", "DELETE_DEPARTMENT",
         "CREATE_BUDGET", "READ_BUDGET", "UPDATE_BUDGET", "DELETE_BUDGET",
         "CREATE_TRANSACTION", "READ_TRANSACTION", "UPDATE_TRANSACTION", "DELETE_TRANSACTION",
         "CREATE_REPORT", "READ_REPORT", "DELETE_REPORT",
         "READ_AUDIT", "MANAGE_AUDIT"},
     FINANCE_MANAGER |->
        {"READ_USER",
         "CREATE_DEPARTMENT", "READ_DEPARTMENT", "UPDATE_DEPARTMENT", "DELETE_DEPARTMENT",
         "CREATE_BUDGET", "READ_BUDGET", "UPDATE_BUDGET", "DELETE_BUDGET",
         "CREATE_TRANSACTION", "READ_TRANSACTION", "UPDATE_TRANSACTION", "DELETE_TRANSACTION",
         "CREATE_REPORT", "READ_REPORT"},
     DEPARTMENT_HEAD |->
        {"READ_USER",
         "READ_DEPARTMENT",
         "CREATE_BUDGET", "READ_BUDGET", "UPDATE_BUDGET",
         "CREATE_TRANSACTION", "READ_TRANSACTION", "UPDATE_TRANSACTION",
         "READ_REPORT"},
     VIEWER |->
        {"READ_USER",
         "READ_DEPARTMENT",
         "READ_BUDGET",
         "READ_TRANSACTION",
         "READ_REPORT"}]

\* dict.get(key, default)
DictGet(d, k, default) == IF k \in DOMAIN d THEN d[k] ELSE default

\* The loop of get_effective_permissions: permissions.update(...) once for
\* every inherited role.
RECURSIVE UpdateInherited(_, _)
UpdateInherited(permissions, inherited) ==
    IF inherited = {}
    THEN permissions
    ELSE LET inherited_role == CHOOSE r \in inherited : TRUE
         IN  UpdateInherited(
                 permissions \cup DictGet(ROLE_PERMISSIONS, inherited_role, {}),
                 inherited \ {inherited_role})

get_effective_permissions_InheritedOnly(role) ==
    UpdateInherited({}, DictGet(ROLE_HIERARCHY, role, {}))

get_effective_permissions(role) ==
    UpdateInherited(DictGet(ROLE_PERMISSIONS, role, {}),
                    DictGet(ROLE_HIERARCHY, role, {}))

has_permission(user_role, permission) ==
    permission \in get_effective_permissions(user_role)

(***************************************************************************)
(* app/core/rbac.py: ResourcePolicy.                                       *)
(***************************************************************************)
can_access_department_ViewerNever(user_role, user_department_id, target_department_id) ==
    IF user_role = "ADMIN" THEN TRUE
    ELSE IF user_role = "FINANCE_MANAGER" THEN TRUE
    ELSE IF user_role = "DEPARTMENT_HEAD" THEN user_department_id = target_department_id
    ELSE FALSE

can_access_department(user_role, user_department_id, target_department_id) ==
    IF user_role = "ADMIN" THEN TRUE
    ELSE IF user_role = "FINANCE_MANAGER" THEN TRUE
    ELSE IF user_role = "DEPARTMENT_HEAD" THEN user_department_id = target_department_id
    ELSE IF user_role = "VIEWER" THEN user_department_id = target_department_id
    ELSE FALSE

can_modify_user_Anyone(user_role, current_user_id, target_user_id) ==
    IF user_role = "ADMIN" THEN TRUE
    ELSE TRUE

can_modify_user(user_role, current_user_id, target_user_id) ==
    IF user_role = "ADMIN" THEN TRUE
    ELSE current_user_id = target_user_id

can_manage_budget_NullMatches(user_role, user_department_id, budget_department_id) ==
    IF user_role = "ADMIN" THEN TRUE
    ELSE IF user_role = "FINANCE_MANAGER" THEN TRUE
    ELSE IF user_role = "DEPARTMENT_HEAD"
         THEN user_department_id = None \/ user_department_id = budget_department_id
    ELSE FALSE

can_manage_budget(user_role, user_department_id, budget_department_id) ==
    IF user_role = "ADMIN" THEN TRUE
    ELSE IF user_role = "FINANCE_MANAGER" THEN TRUE
    ELSE IF user_role = "DEPARTMENT_HEAD" THEN user_department_id = budget_department_id
    ELSE FALSE

can_manage_transaction(user_role, user_department_id, transaction_budget_department_id) ==
    IF user_role = "ADMIN" THEN TRUE
    ELSE IF user_role = "FINANCE_MANAGER" THEN TRUE
    ELSE IF user_role = "DEPARTMENT_HEAD"
         THEN user_department_id = transaction_budget_department_id
    ELSE FALSE

(***************************************************************************)
(* Evaluation of the pure functions of app/core/rbac.py: a call is drawn   *)
(* from PolicyCalls and the function named by it is applied to it.         *)
(***************************************************************************)
PolicyCall(fn, role, permission, x, y) ==
    [fn |-> fn, role |-> role, permission |-> permission, x |-> x, y |-> y]

NoCall == PolicyCall("none", "VIEWER", "READ_USER", None, None)

PolicyCalls ==
    {PolicyCall("get_effective_permissions", r, "READ_USER", None, None) : r \in RoleEnum}
    \cup {PolicyCall("has_permission", r, p, None, None) :
            r \in RoleEnum, p \in PermissionEnum}
    \cup {PolicyCall(fn, r, "READ_USER", s, t) :
            fn \in {"can_access_department", "can_manage_budget", "can_manage_transaction"},
            r \in RoleEnum, s \in Scopes, t \in DeptIds}
    \cup {PolicyCall("can_modify_user", r, "READ_USER", a, t) :
            r \in RoleEnum, a \in UserIds, t \in UserIds}

Pending == [done |-> FALSE]

Returned(v) == [done |-> TRUE, value |-> v]

Eval_get_effective_permissions ==
    /\ call.fn = "get_effective_permissions" /\ ~result.done
    /\ result' = Returned(get_effective_permissions(call.role))
    /\ UNCHANGED <<dbVars, cache, resp, call>>

Eval_has_permission ==
    /\ call.fn = "has_permission" /\ ~result.done
    /\ result' = Returned(has_permission(call.role, call.permission))
    /\ UNCHANGED <<dbVars, cache, resp, call>>

Eval_can_access_department ==
    /\ call.fn = "can_access_department" /\ ~result.done
    /\ result' = Returned(can_access_department(call.role, call.x, call.y))
    /\ UNCHANGED <<dbVars, cache, resp, call>>

Eval_can_manage_budget ==
    /\ call.fn = "can_manage_budget" /\ ~result.done
    /\ result' = Returned(can_manage_budget(call.role, call.x, call.y))
    /\ UNCHANGED <<dbVars, cache, resp, call>>

Eval_can_manage_transaction ==
    /\ call.fn = "can_manage_transaction" /\ ~result.done
    /\ result' = Returned(can_manage_transaction(call.role, call.x, call.y))
    /\ UNCHANGED <<dbVars, cache, resp, call>>

Eval_can_modify_user ==
    /\ call.fn = "can_modify_user" /\ ~result.done
    /\ result' = Returned(can_modify_user(call.role, call.x, call.y))
    /\ UNCHANGED <<dbVars, cache, resp, call>>

(***************************************************************************)
(* Database rows (app/models/*.py) and the response of the last request.   *)
(***************************************************************************)
NoRow == [exists |-> FALSE]

UserRow(role, department_id, is_active) ==
    [exists |-> TRUE, role |-> role, department_id |-> department_id,
     is_active |-> is_active]

\* The response of a request (or the return of a direct call).
Resp(route, actor, target) ==
    [route |-> route, actor |-> actor, role |-> "none", target |-> target,
     status |-> 0, detail |-> "", policy |-> FALSE, value |-> {}, audit |-> <<>>]

Answer(base, status, detail) == [base EXCEPT !.status = status, !.detail = detail]

NoResp == Resp("none", None, None)

EmptyDb ==
    /\ users = [u \in UserIds |-> NoRow]
    /\ departments = [d \in DeptIds |-> NoRow]
    /\ budgets = [b \in BudgetIds |-> NoRow]
    /\ transactions = [t \in TransactionIds |-> NoRow]

InitPolicy ==
    /\ EmptyDb
    /\ cache = [u \in UserIds |-> NoRow]
    /\ resp = NoResp
    /\ call \in PolicyCalls
    /\ result = Pending

NextPolicy ==
    \/ Eval_get_effective_permissions
    \/ Eval_has_permission
    \/ Eval_can_access_department
    \/ Eval_can_manage_budget
    \/ Eval_can_manage_transaction
    \/ Eval_can_modify_user

SpecPolicy == InitPolicy /\ [][NextPolicy]_vars

(***************************************************************************)
(* app/core/cache.py: the Redis-backed helpers.  The store maps a key to   *)
(* its entry; ok is FALSE when redis_client is None or the Redis call      *)
(* raises (connection error, timeout), which each helper catches.          *)
(* A JSON list of strings is modelled by the set of its elements.          *)
(***************************************************************************)
PERMISSION_TTL == 3600

\* What get_cache returns: None, or the deserialized value.
PyNone == [found |-> FALSE, value |-> {}]

set_cache(store, key, value, expire, ok) ==
    IF ok
    THEN [store EXCEPT ![key] = [exists |-> TRUE, value |-> value, ttl |-> expire]]
    ELSE store

get_cache_IgnoresFailure(store, key, ok) ==
    IF ~store[key].exists THEN PyNone
    ELSE [found |-> TRUE, value |-> store[key].value]

get_cache(store, key, ok) ==
    IF ~ok THEN PyNone
    ELSE IF ~store[key].exists THEN PyNone
    ELSE [found |-> TRUE, value |-> store[key].value]

delete_cache(store, key, ok) ==
    IF ok THEN [store EXCEPT ![key] = NoRow] ELSE store

\* Python truthiness of `cached`: None and the empty list are false.
Truthy(cached) == cached.found /\ cached.value # {}

(***************************************************************************)
(* app/core/rbac.py: PermissionCache.  The cache key                       *)
(* f"user_permissions:{user_id}" is modelled by user_id.                   *)
(***************************************************************************)
\* set(Permission(p) for p in cached) succeeds.
CachedIsValid(cached) == \A v \in cached.value : IsPermissionValue(v)

get_user_permissions_hit(store, user_id, ok_get) ==
    LET cached == get_cache(store, user_id, ok_get)
    IN  Truthy(cached) /\ CachedIsValid(cached)

get_user_permissions_Recompute(store, user_id, user_role, ok_get) ==
    get_effective_permissions(user_role)

\* The value get_user_permissions returns.
get_user_permissions(store, user_id, user_role, ok_get) ==
    LET cached == get_cache(store, user_id, ok_get)
    IN  IF Truthy(cached) /\ CachedIsValid(cached)
        THEN {Permission(v) : v \in cached.value}
        ELSE get_effective_permissions(user_role)

get_user_permissions_store_KeepCorrupt(store, user_id, user_role, ok_get, ok_del, ok_set) ==
    LET cached == get_cache(store, user_id, ok_get)
    IN  IF Truthy(cached) THEN store
        ELSE set_cache(store, user_id,
                       {PermissionValue[p] : p \in get_effective_permissions(user_role)},
                       PERMISSION_TTL, ok_set)

\* The store get_user_permissions leaves.
get_user_permissions_store(store, user_id, user_role, ok_get, ok_del, ok_set) ==
    LET cached == get_cache(store, user_id, ok_get)
        cleared == IF Truthy(cached)
                   THEN delete_cache(store, user_id, ok_del)
                   ELSE store
    IN  IF Truthy(cached) /\ CachedIsValid(cached)
        THEN store
        ELSE set_cache(cleared, user_id,
                       {PermissionValue[p] : p \in get_effective_permissions(user_role)},
                       PERMISSION_TTL, ok_set)

invalidate_user_permissions_Skip(store, user_id, ok) == store

invalidate_user_permissions(store, user_id, ok) == delete_cache(store, user_id, ok)

\* An AuditLog row (app/models/audit.py).
AuditRecord(action, resource_type, resource_id, user_id) ==
    [action |-> action, resource_type |-> resource_type,
     resource_id |-> resource_id, user_id |-> user_id]

\* app/db/audit.py log_action_async: the row is committed, or the commit
\* fails (db_ok FALSE, or audit_logs.user_id names no row of users) and
\* the exception is re-raised.
log_action_async(users_now, record, db_ok) ==
    db_ok /\ (record.user_id = None \/ users_now[record.user_id].exists)

(***************************************************************************)
(* Calls of the PermissionCache and the passive expiry of an entry.        *)
(* get_user_permissions is called as its signature says, with the id of a  *)
(* stored user and the Role of that user's stored role.                    *)
(***************************************************************************)
GetUserPermissions(u, r, ok_get, ok_del, ok_set) ==
    /\ users[u].exists
    /\ r = Role(users[u].role)
    /\ cache' = get_user_permissions_store(cache, u, r, ok_get, ok_del, ok_set)
    /\ resp' = [Resp("get_user_permissions", None, u) EXCEPT
                    !.role = r,
                    !.value = get_user_permissions(cache, u, r, ok_get)]
    /\ UNCHANGED <<dbVars, call, result>>

InvalidateUserPermissions(u, ok) ==
    /\ cache' = invalidate_user_permissions(cache, u, ok)
    /\ resp' = Resp("invalidate_user_permissions", None, u)
    /\ UNCHANGED <<dbVars, call, result>>

TtlExpire(u) ==
    /\ cache[u].exists
    /\ cache' = [cache EXCEPT ![u] = NoRow]
    /\ resp' = Resp("ttl_expire", None, u)
    /\ UNCHANGED <<dbVars, call, result>>

(***************************************************************************)
(* app/core/auth.py: get_current_user / get_current_active_user.  The      *)
(* credential of a request is the id a of the user its token names, None   *)
(* when the request carries no Authorization header (oauth2_scheme answers *)
(* 401 "Not authenticated"), or a value outside UserIds for a token that   *)
(* does not decode (bad signature, expired, no subject); the user is       *)
(* looked up in the database.                                              *)
(***************************************************************************)
AuthStatus_MissingIsInactive(a) ==
    IF a \notin UserIds THEN 401
    ELSE IF ~users[a].exists \/ ~users[a].is_active THEN 400
    ELSE 200

AuthStatus(a) ==
    IF a \notin UserIds THEN 401
    ELSE IF ~users[a].exists THEN 401
    ELSE IF ~users[a].is_active THEN 400
    ELSE 200

AuthDetail(a) ==
    IF a = None THEN "Not authenticated"
    ELSE IF a \notin UserIds THEN "Could not validate credentials"
    ELSE IF ~users[a].exists THEN "Could not validate credentials"
    ELSE "Inactive user"

\* The resolved actor: the response carries who asked, with which role.
Actor(route, a, target) ==
    [Resp(route, a, target) EXCEPT !.role = Role(users[a].role)]

(***************************************************************************)
(* app/core/rbac.py: check_user_access.                                    *)
(***************************************************************************)
check_user_access(target_user_id, current_user_id) ==
    can_modify_user(Role(users[current_user_id].role), current_user_id, target_user_id)

(***************************************************************************)
(* app/schemas/user.py: UserUpdate, as the dict of the fields that are     *)
(* set (user_in.dict(exclude_unset=True)); validate_role admits three      *)
(* role values only.                                                       *)
(***************************************************************************)
allowed_roles == {"admin", "finance_manager", "viewer"}

UserUpdates ==
    {<<>>}
    \cup {[role |-> r] : r \in allowed_roles}
    \cup {[is_active |-> b] : b \in BOOLEAN}

\* for field, value in update_data.items(): setattr(row, field, value)
SetAttrs(row, update_data) ==
    [f \in DOMAIN row |-> IF f \in DOMAIN update_data THEN update_data[f] ELSE row[f]]

(***************************************************************************)
(* app/services/user.py: UserService.update and UserService.delete, as     *)
(* the database, the cache and the outcome they leave.  outcome is "None"  *)
(* (no such user), "raise" (the audit write failed after the commit) or    *)
(* "done".                                                                 *)
(***************************************************************************)
UserService_update(user_id, user_in, acting_user_id, db_ok, redis_ok) ==
    LET user == users[user_id]
    IN  IF ~user.exists
        THEN [users |-> users, cache |-> cache, outcome |-> "None", audit |-> <<>>]
        ELSE
        LET update_data == user_in
            role_changed == "role" \in DOMAIN update_data /\ update_data.role # user.role
            committed == [users EXCEPT ![user_id] = SetAttrs(user, update_data)]
            changed_fields == {k \in DOMAIN update_data : user[k] # update_data[k]}
            record == AuditRecord("UPDATE", "USER", user_id,
                                  IF acting_user_id # None THEN acting_user_id
                                  ELSE user_id)
        IN  IF changed_fields # {} /\ ~log_action_async(committed, record, db_ok)
            THEN [users |-> committed, cache |-> cache, outcome |-> "raise",
                  audit |-> <<>>]
            ELSE [users |-> committed,
                  cache |-> IF role_changed
                            THEN invalidate_user_permissions(cache, user_id, redis_ok)
                            ELSE cache,
                  outcome |-> "done",
                  audit |-> IF changed_fields # {} THEN <<record>> ELSE <<>>]

UserService_delete(user_id, acting_user_id, db_ok) ==
    LET user == users[user_id]
    IN  IF ~user.exists
        THEN [users |-> users, outcome |-> "False", audit |-> <<>>]
        ELSE
        LET committed == [users EXCEPT ![user_id] = NoRow]
            record == AuditRecord("DELETE", "USER", user_id, acting_user_id)
        IN  IF ~log_action_async(committed, record, db_ok)
            THEN [users |-> committed, outcome |-> "raise", audit |-> <<>>]
            ELSE [users |-> committed, outcome |-> "True", audit |-> <<record>>]

(***************************************************************************)
(* app/routers/users.py and app/routers/auth.py: the user routes, each     *)
(* with its dependencies.                                                  *)
(***************************************************************************)
\* PUT /users/{user_id}: the request, but for its effect on the rows of
\* audit_logs (kept in result by the specification that tracks them).
update_user_request(a, t, user_in, db_ok, redis_ok) ==
    /\ UNCHANGED <<departments, budgets, transactions, call>>
    /\ IF AuthStatus(a) # 200
       THEN /\ resp' = Answer(Resp("update_user", a, t), AuthStatus(a), AuthDetail(a))
            /\ UNCHANGED <<users, cache>>
       ELSE IF ~check_user_access(t, a)
       THEN /\ resp' = Answer(Actor("update_user", a, t), 403, "Access denied to this user")
            /\ UNCHANGED <<users, cache>>
       ELSE LET r == UserService_update(t, user_in, a, db_ok, redis_ok)
            IN  /\ users' = r.users
                /\ cache' = r.cache
                /\ resp' = [(CASE r.outcome = "None" ->
                                    Answer(Actor("update_user", a, t), 404, "User not found")
                               [] r.outcome = "raise" ->
                                    Answer(Actor("update_user", a, t), 500, "Internal Server Error")
                               [] OTHER ->
                                    Answer(Actor("update_user", a, t), 200, ""))
                            EXCEPT !.audit = r.audit]

update_user(a, t, user_in, db_ok, redis_ok) ==
    update_user_request(a, t, user_in, db_ok, redis_ok) /\ UNCHANGED result

\* PUT /auth/profile
update_user_profile(a, user_in, db_ok, redis_ok) ==
    /\ UNCHANGED <<departments, budgets, transactions, call, result>>
    /\ IF AuthStatus(a) # 200
       THEN /\ resp' = Answer(Resp("update_user_profile", a, a), AuthStatus(a), AuthDetail(a))
            /\ UNCHANGED <<users, cache>>
       ELSE LET r == UserService_update(a, user_in, a, db_ok, redis_ok)
            IN  /\ users' = r.users
                /\ cache' = r.cache
                /\ resp' = [(CASE r.outcome = "None" ->
                                    Answer(Actor("update_user_profile", a, a), 404, "User not found")
                               [] r.outcome = "raise" ->
                                    Answer(Actor("update_user_profile", a, a), 500, "Internal Server Error")
                               [] OTHER ->
                                    Answer(Actor("update_user_profile", a, a), 200, ""))
                            EXCEPT !.audit = r.audit]

\* DELETE /users/{user_id}: the request, but for its effect on the rows of
\* audit_logs.
delete_user_request(a, t, db_ok) ==
    /\ UNCHANGED <<departments, budgets, transactions, cache, call>>
    /\ IF AuthStatus(a) # 200
       THEN /\ resp' = Answer(Resp("delete_user", a, t), AuthStatus(a), AuthDetail(a))
            /\ UNCHANGED users
       ELSE IF ~check_user_access(t, a)
       THEN /\ resp' = Answer(Actor("delete_user", a, t), 403, "Access denied to this user")
            /\ UNCHANGED users
       ELSE LET r == UserService_delete(t, a, db_ok)
            IN  /\ users' = r.users
                /\ resp' = [(CASE r.outcome = "False" ->
                                    Answer(Actor("delete_user", a, t), 404, "User not found")
                               [] r.outcome = "raise" ->
                                    Answer(Actor("delete_user", a, t), 500, "Internal Server Error")
                               [] OTHER ->
                                    Answer(Actor("delete_user", a, t), 204, ""))
                            EXCEPT !.audit = r.audit]

delete_user(a, t, db_ok) == delete_user_request(a, t, db_ok) /\ UNCHANGED result

(***************************************************************************)
(* The user routes and the permission cache together.                      *)
(***************************************************************************)
InitUsers ==
    /\ users \in [UserIds -> {UserRow(RoleValue[r], None, TRUE) : r \in RoleEnum}]
    /\ departments = [d \in DeptIds |-> NoRow]
    /\ budgets = [b \in BudgetIds |-> NoRow]
    /\ transactions = [t \in TransactionIds |-> NoRow]
    /\ cache = [u \in UserIds |-> NoRow]
    /\ resp = NoResp
    /\ call = NoCall
    /\ result = Pending

NextUsers ==
    \/ \E u \in UserIds, r \in RoleEnum, ok_get \in BOOLEAN, ok_del \in BOOLEAN,
          ok_set \in BOOLEAN :
            GetUserPermissions(u, r, ok_get, ok_del, ok_set)
    \/ \E u \in UserIds, ok \in BOOLEAN : InvalidateUserPermissions(u, ok)
    \/ \E u \in UserIds : TtlExpire(u)
    \/ \E a \in UserIds, t \in UserIds, user_in \in UserUpdates, db_ok \in BOOLEAN,
          redis_ok \in BOOLEAN :
            update_user(a, t, user_in, db_ok, redis_ok)
    \/ \E a \in UserIds, user_in \in UserUpdates, db_ok \in BOOLEAN,
          redis_ok \in BOOLEAN :
            update_user_profile(a, user_in, db_ok, redis_ok)
    \/ \E a \in UserIds, t \in UserIds, db_ok \in BOOLEAN : delete_user(a, t, db_ok)

SpecUsers == InitUsers /\ [][NextUsers]_vars

(***************************************************************************)
(* Rows of departments, budgets and transactions (app/models/*.py) and     *)
(* the update schemas (app/schemas/*.py) as dicts of the fields set.       *)
(***************************************************************************)
Descriptions == {"x", "y"}

TransactionType ==
    [EXPENSE |-> "expense", REFUND |-> "refund",
     TRANSFER_IN |-> "transfer_in", TRANSFER_OUT |-> "transfer_out"]

TransactionTypes == {TransactionType[k] : k \in DOMAIN TransactionType}

DepartmentRow(description) == [exists |-> TRUE, description |-> description]

BudgetRow(department_id, total_amount, spent_amount, remaining_amount) ==
    [exists |-> TRUE, department_id |-> department_id, total_amount |-> total_amount,
     spent_amount |-> spent_amount, remaining_amount |-> remaining_amount]

TransactionRow(budget_id, transaction_type, amount) ==
    [exists |-> TRUE, budget_id |-> budget_id, transaction_type |-> transaction_type,
     amount |-> amount]

DepartmentUpdates == {<<>>} \cup {[description |-> v] : v \in Descriptions}

BudgetUpdates == {<<>>} \cup {[total_amount |-> x] : x \in Amounts}

TransactionUpdates == {<<>>} \cup {[amount |-> x] : x \in Amounts}

\* The response of a request during which a ResourcePolicy predicate ran.
Policy(base) == [base EXCEPT !.policy = TRUE]

\* The answer of a route to what its service returned.
ServiceAnswer(base, r, ok_status, not_found) ==
    [(CASE r.outcome \in {"None", "False"} -> Answer(base, 404, not_found)
        [] r.outcome = "raise" -> Answer(base, 500, "Internal Server Error")
        [] OTHER -> Answer(base, ok_status, ""))
     EXCEPT !.audit = r.audit]

\* The audit rows a request leaves: every write up to the first that fails.
RECURSIVE Logged(_, _, _)
Logged(users_now, records, db_ok) ==
    IF records = <<>> THEN <<>>
    ELSE IF ~log_action_async(users_now, Head(records), db_ok) THEN <<>>
    ELSE <<Head(records)>> \o Logged(users_now, Tail(records), db_ok)

\* An old or new value in the details of an audit row, as the value itself
\* or as str(value).
Raw(v) == [str |-> FALSE, value |-> v]

Str(v) == [str |-> TRUE, value |-> v]

\* log_action_async(..., details=changes): the row with its details column.
WithDetails(record, changes) ==
    [action |-> record.action, resource_type |-> record.resource_type,
     resource_id |-> record.resource_id, user_id |-> record.user_id,
     details |-> changes]

(***************************************************************************)
(* app/core/rbac.py: the resource checkers.                                *)
(***************************************************************************)
check_department_access(department_id, current_user) ==
    can_access_department(Role(users[current_user].role),
                          users[current_user].department_id, department_id)

check_budget_access(budget_id, current_user) ==
    IF ~budgets[budget_id].exists THEN FALSE
    ELSE can_manage_budget(Role(users[current_user].role),
                           users[current_user].department_id,
                           budgets[budget_id].department_id)

check_transaction_access(transaction_id, current_user) ==
    IF ~transactions[transaction_id].exists THEN FALSE
    ELSE IF ~budgets[transactions[transaction_id].budget_id].exists THEN FALSE
    ELSE can_manage_transaction(Role(users[current_user].role),
                                users[current_user].department_id,
                                budgets[transactions[transaction_id].budget_id].department_id)

\* Whether the checker reached its ResourcePolicy predicate.
budget_policy_ran(budget_id) == budgets[budget_id].exists

transaction_policy_ran(transaction_id) ==
    /\ transactions[transaction_id].exists
    /\ budgets[transactions[transaction_id].budget_id].exists

(***************************************************************************)
(* app/services/department.py: DepartmentService.update and delete.  The   *)
(* delete cascades along Department.budgets, Budget.transactions and       *)
(* Department.users (cascade="all, delete-orphan").                        *)
(***************************************************************************)
DepartmentService_update(department_id, department_in, user_id, db_ok) ==
    LET department == departments[department_id]
    IN  IF ~department.exists
        THEN [departments |-> departments, outcome |-> "None", audit |-> <<>>]
        ELSE
        LET update_data == department_in
            committed == [departments EXCEPT
                              ![department_id] = SetAttrs(department, update_data)]
            updated == committed[department_id]
            original_values == [description |-> department.description]
            changes == [f \in {g \in DOMAIN original_values \cap DOMAIN update_data :
                                  original_values[g] # updated[g]} |->
                          [old |-> Raw(original_values[f]), new |-> Raw(updated[f])]]
            record == WithDetails(AuditRecord("UPDATE", "DEPARTMENT", department_id,
                                              user_id), changes)
        IN  IF DOMAIN changes # {} /\ ~log_action_async(users, record, db_ok)
            THEN [departments |-> committed, outcome |-> "raise", audit |-> <<>>]
            ELSE [departments |-> committed, outcome |-> "done",
                  audit |-> IF DOMAIN changes # {} THEN <<record>> ELSE <<>>]

DepartmentService_delete(department_id, user_id, db_ok) ==
    IF ~departments[department_id].exists
    THEN [departments |-> departments, budgets |-> budgets,
          transactions |-> transactions, users |-> users,
          outcome |-> "False", audit |-> <<>>]
    ELSE
    LET gone_budgets == {b \in BudgetIds : budgets[b].exists
                                            /\ budgets[b].department_id = department_id}
        departments1 == [departments EXCEPT ![department_id] = NoRow]
        budgets1 == [b \in BudgetIds |-> IF b \in gone_budgets THEN NoRow ELSE budgets[b]]
        transactions1 == [t \in TransactionIds |->
                            IF transactions[t].exists
                               /\ transactions[t].budget_id \in gone_budgets
                            THEN NoRow ELSE transactions[t]]
        users1 == [u \in UserIds |->
                     IF users[u].exists /\ users[u].department_id = department_id
                     THEN NoRow ELSE users[u]]
        record == AuditRecord("DELETE", "DEPARTMENT", department_id, user_id)
        logged == log_action_async(users1, record, db_ok)
    IN  [departments |-> departments1, budgets |-> budgets1,
         transactions |-> transactions1, users |-> users1,
         outcome |-> IF logged THEN "True" ELSE "raise",
         audit |-> IF logged THEN <<record>> ELSE <<>>]

(***************************************************************************)
(* app/services/budget.py: BudgetService.update, delete and                *)
(* update_spent_amount.                                                    *)
(***************************************************************************)
BudgetService_update(budget_id, budget_in, user_id, db_ok) ==
    LET budget == budgets[budget_id]
    IN  IF ~budget.exists
        THEN [budgets |-> budgets, outcome |-> "None", audit |-> <<>>]
        ELSE
        LET update_data ==
                IF "total_amount" \in DOMAIN budget_in
                THEN [total_amount |-> budget_in.total_amount,
                      remaining_amount |-> budget_in.total_amount - budget.spent_amount]
                ELSE budget_in
            committed == [budgets EXCEPT ![budget_id] = SetAttrs(budget, update_data)]
            updated == committed[budget_id]
            original_values == [department_id |-> budget.department_id,
                                total_amount |-> budget.total_amount]
            changes == [f \in {g \in DOMAIN original_values \cap DOMAIN update_data :
                                  original_values[g] # updated[g]} |->
                          [old |-> IF f = "total_amount" THEN Str(original_values[f])
                                   ELSE Raw(original_values[f]),
                           new |-> Raw(updated[f])]]
            record == WithDetails(AuditRecord("UPDATE", "BUDGET", budget_id, user_id),
                                  changes)
        IN  IF DOMAIN changes # {} /\ ~log_action_async(users, record, db_ok)
            THEN [budgets |-> committed, outcome |-> "raise", audit |-> <<>>]
            ELSE [budgets |-> committed, outcome |-> "done",
                  audit |-> IF DOMAIN changes # {} THEN <<record>> ELSE <<>>]

BudgetService_delete(budget_id, user_id, db_ok) ==
    IF ~budgets[budget_id].exists
    THEN [budgets |-> budgets, transactions |-> transactions,
          outcome |-> "False", audit |-> <<>>]
    ELSE
    LET record == AuditRecord("DELETE", "BUDGET", budget_id, user_id)
        logged == log_action_async(users, record, db_ok)
    IN  [budgets |-> [budgets EXCEPT ![budget_id] = NoRow],
         transactions |-> [t \in TransactionIds |->
                             IF transactions[t].exists
                                /\ transactions[t].budget_id = budget_id
                             THEN NoRow ELSE transactions[t]],
         outcome |-> IF logged THEN "True" ELSE "raise",
         audit |-> IF logged THEN <<record>> ELSE <<>>]

\* The budgets table update_spent_amount commits.
update_spent_amount(bs, budget_id, amount_change) ==
    LET budget == bs[budget_id]
        sum == budget.spent_amount + amount_change
        new_spent_amount == IF sum < 0 THEN 0 ELSE sum
        new_remaining_amount == budget.total_amount - new_spent_amount
    IN  [bs EXCEPT ![budget_id].spent_amount = new_spent_amount,
                   ![budget_id].remaining_amount = new_remaining_amount]

\* The audit row update_spent_amount writes, whatever the change.
update_spent_amount_record(bs, budget_id, amount_change, user_id) ==
    LET budget == bs[budget_id]
        after == update_spent_amount(bs, budget_id, amount_change)[budget_id]
    IN  WithDetails(AuditRecord("UPDATE", "BUDGET", budget_id, user_id),
                    [spent_amount |-> [old |-> Str(budget.spent_amount),
                                       new |-> Str(after.spent_amount)],
                     remaining_amount |-> [old |-> Str(budget.remaining_amount),
                                           new |-> Str(after.remaining_amount)]])

(***************************************************************************)
(* app/services/transaction.py: TransactionService.update and delete.      *)
(***************************************************************************)
TransactionService_update(transaction_id, transaction_in, user_id, db_ok) ==
    LET transaction == transactions[transaction_id]
    IN  IF ~transaction.exists
        THEN [transactions |-> transactions, budgets |-> budgets,
              outcome |-> "None", audit |-> <<>>]
        ELSE IF ~budgets[transaction.budget_id].exists
        THEN [transactions |-> transactions, budgets |-> budgets,
              outcome |-> "None", audit |-> <<>>]
        ELSE
        LET old_amount == transaction.amount
            update_data == transaction_in
            updated == SetAttrs(transaction, update_data)
            amount_diff == updated.amount - old_amount
            adjusts == "amount" \in DOMAIN update_data
            amount_change ==
                IF transaction.transaction_type
                       \in {TransactionType.EXPENSE, TransactionType.TRANSFER_OUT}
                THEN amount_diff
                ELSE -amount_diff
            budgets1 ==
                IF ~adjusts THEN budgets
                ELSE update_spent_amount(budgets, transaction.budget_id, amount_change)
            \* "old" is read from the row after setattr and refresh
            changes == [f \in DOMAIN update_data |->
                          [old |-> Str(updated[f]), new |-> Str(update_data[f])]]
            records ==
                (IF adjusts
                 THEN <<update_spent_amount_record(budgets, transaction.budget_id,
                                                   amount_change, user_id)>>
                 ELSE <<>>)
                \o <<WithDetails(AuditRecord("UPDATE", "TRANSACTION", transaction_id,
                                             user_id), changes)>>
            audit == Logged(users, records, db_ok)
        IN  [transactions |-> [transactions EXCEPT ![transaction_id] = updated],
             budgets |-> budgets1,
             outcome |-> IF Len(audit) < Len(records) THEN "raise" ELSE "done",
             audit |-> audit]

TransactionService_delete(transaction_id, user_id, db_ok) ==
    LET transaction == transactions[transaction_id]
    IN  IF ~transaction.exists
        THEN [transactions |-> transactions, budgets |-> budgets,
              outcome |-> "False", audit |-> <<>>]
        ELSE IF ~budgets[transaction.budget_id].exists
        THEN [transactions |-> transactions, budgets |-> budgets,
              outcome |-> "False", audit |-> <<>>]
        ELSE
        LET amount_adjustment ==
                IF transaction.transaction_type
                       \in {TransactionType.EXPENSE, TransactionType.TRANSFER_OUT}
                THEN -transaction.amount
                ELSE transaction.amount
            records == <<update_spent_amount_record(budgets, transaction.budget_id,
                                                    amount_adjustment, user_id),
                         AuditRecord("DELETE", "TRANSACTION", transaction_id, user_id)>>
            audit == Logged(users, records, db_ok)
        IN  [transactions |-> [transactions EXCEPT ![transaction_id] = NoRow],
             budgets |-> update_spent_amount(budgets, transaction.budget_id,
                                             amount_adjustment),
             outcome |-> IF Len(audit) < Len(records) THEN "raise" ELSE "True",
             audit |-> audit]

(***************************************************************************)
(* app/routers/departments.py, budgets.py, transactions.py with the        *)
(* dependencies of app/core/rbac.py (get_/update_/delete_*_with_access).   *)
(***************************************************************************)
\* GET /departments/{department_id}
get_department(a, d) ==
    /\ UNCHANGED <<dbVars, cache, call, result>>
    /\ resp' = IF AuthStatus(a) # 200
               THEN Answer(Resp("get_department", a, d), AuthStatus(a), AuthDetail(a))
               ELSE IF ~departments[d].exists
               THEN Answer(Actor("get_department", a, d), 404, "Department not found")
               ELSE IF ~check_department_access(d, a)
               THEN Answer(Policy(Actor("get_department", a, d)), 403, "Access denied to this department")
               ELSE Answer(Policy(Actor("get_department", a, d)), 200, "")

\* PUT /departments/{department_id}
update_department(a, d, department_in, db_ok) ==
    /\ UNCHANGED <<users, budgets, transactions, cache, call, result>>
    /\ IF AuthStatus(a) # 200
       THEN /\ resp' = Answer(Resp("update_department", a, d), AuthStatus(a), AuthDetail(a))
            /\ UNCHANGED departments
       ELSE IF ~check_department_access(d, a)
       THEN /\ resp' = Answer(Policy(Actor("update_department", a, d)), 403,
                              "Access denied to this department")
            /\ UNCHANGED departments
       ELSE LET r == DepartmentService_update(d, department_in, a, db_ok)
            IN  /\ departments' = r.departments
                /\ resp' = ServiceAnswer(Policy(Actor("update_department", a, d)), r,
                                         200, "Department not found")

\* DELETE /departments/{department_id}
delete_department(a, d, db_ok) ==
    /\ UNCHANGED <<cache, call, result>>
    /\ IF AuthStatus(a) # 200
       THEN /\ resp' = Answer(Resp("delete_department", a, d), AuthStatus(a), AuthDetail(a))
            /\ UNCHANGED dbVars
       ELSE IF ~check_department_access(d, a)
       THEN /\ resp' = Answer(Policy(Actor("delete_department", a, d)), 403,
                              "Access denied to this department")
            /\ UNCHANGED dbVars
       ELSE LET r == DepartmentService_delete(d, a, db_ok)
            IN  /\ departments' = r.departments
                /\ budgets' = r.budgets
                /\ transactions' = r.transactions
                /\ users' = r.users
                /\ resp' = ServiceAnswer(Policy(Actor("delete_department", a, d)), r,
                                         204, "Department not found")

\* GET /budgets/{budget_id}
get_budget(a, b) ==
    /\ UNCHANGED <<dbVars, cache, call, result>>
    /\ resp' = IF AuthStatus(a) # 200
               THEN Answer(Resp("get_budget", a, b), AuthStatus(a), AuthDetail(a))
               ELSE IF ~budgets[b].exists
               THEN Answer(Actor("get_budget", a, b), 404, "Budget not found")
               ELSE IF ~check_budget_access(b, a)
               THEN Answer((IF budget_policy_ran(b) THEN Policy(Actor("get_budget", a, b)) ELSE Actor("get_budget", a, b)), 403, "Access denied to this budget")
               ELSE Answer((IF budget_policy_ran(b) THEN Policy(Actor("get_budget", a, b)) ELSE Actor("get_budget", a, b)), 200, "")

\* PUT /budgets/{budget_id}
update_budget(a, b, budget_in, db_ok) ==
    /\ UNCHANGED <<users, departments, transactions, cache, call, result>>
    /\ LET base == IF budget_policy_ran(b) THEN Policy(Actor("update_budget", a, b))
                   ELSE Actor("update_budget", a, b)
       IN  IF AuthStatus(a) # 200
           THEN /\ resp' = Answer(Resp("update_budget", a, b), AuthStatus(a), AuthDetail(a))
                /\ UNCHANGED budgets
           ELSE IF ~check_budget_access(b, a)
           THEN /\ resp' = Answer(base, 403, "Access denied to this budget")
                /\ UNCHANGED budgets
           ELSE LET r == BudgetService_update(b, budget_in, a, db_ok)
                IN  /\ budgets' = r.budgets
                    /\ resp' = ServiceAnswer(base, r, 200, "Budget not found")

\* DELETE /budgets/{budget_id}
delete_budget(a, b, db_ok) ==
    /\ UNCHANGED <<users, departments, cache, call, result>>
    /\ LET base == IF budget_policy_ran(b) THEN Policy(Actor("delete_budget", a, b))
                   ELSE Actor("delete_budget", a, b)
       IN  IF AuthStatus(a) # 200
           THEN /\ resp' = Answer(Resp("delete_budget", a, b), AuthStatus(a), AuthDetail(a))
                /\ UNCHANGED <<budgets, transactions>>
           ELSE IF ~check_budget_access(b, a)
           THEN /\ resp' = Answer(base, 403, "Access denied to this budget")
                /\ UNCHANGED <<budgets, transactions>>
           ELSE LET r == BudgetService_delete(b, a, db_ok)
                IN  /\ budgets' = r.budgets
                    /\ transactions' = r.transactions
                    /\ resp' = ServiceAnswer(base, r, 204, "Budget not found")

\* GET /transactions/{transaction_id}
get_transaction(a, t) ==
    /\ UNCHANGED <<dbVars, cache, call, result>>
    /\ resp' = IF AuthStatus(a) # 200
               THEN Answer(Resp("get_transaction", a, t), AuthStatus(a), AuthDetail(a))
               ELSE IF ~transactions[t].exists
               THEN Answer(Actor("get_transaction", a, t), 404, "Transaction not found")
               ELSE IF ~check_transaction_access(t, a)
               THEN Answer((IF transaction_policy_ran(t) THEN Policy(Actor("get_transaction", a, t)) ELSE Actor("get_transaction", a, t)), 403, "Access denied to this transaction")
               ELSE Answer((IF transaction_policy_ran(t) THEN Policy(Actor("get_transaction", a, t)) ELSE Actor("get_transaction", a, t)), 200, "")

\* PUT /transactions/{transaction_id}
update_transaction(a, t, transaction_in, db_ok) ==
    /\ UNCHANGED <<users, departments, cache, call, result>>
    /\ LET base == IF transaction_policy_ran(t)
                   THEN Policy(Actor("update_transaction", a, t))
                   ELSE Actor("update_transaction", a, t)
       IN  IF AuthStatus(a) # 200
           THEN /\ resp' = Answer(Resp("update_transaction", a, t), AuthStatus(a),
                                  AuthDetail(a))
                /\ UNCHANGED <<budgets, transactions>>
           ELSE IF ~check_transaction_access(t, a)
           THEN /\ resp' = Answer(base, 403, "Access denied to this transaction")
                /\ UNCHANGED <<budgets, transactions>>
           ELSE LET r == TransactionService_update(t, transaction_in, a, db_ok)
                IN  /\ budgets' = r.budgets
                    /\ transactions' = r.transactions
                    /\ resp' = ServiceAnswer(base, r, 200, "Transaction not found")

\* DELETE /transactions/{transaction_id}
delete_transaction(a, t, db_ok) ==
    /\ UNCHANGED <<users, departments, cache, call, result>>
    /\ LET base == IF transaction_policy_ran(t)
                   THEN Policy(Actor("delete_transaction", a, t))
                   ELSE Actor("delete_transaction", a, t)
       IN  IF AuthStatus(a) # 200
           THEN /\ resp' = Answer(Resp("delete_transaction", a, t), AuthStatus(a),
                                  AuthDetail(a))
                /\ UNCHANGED <<budgets, transactions>>
           ELSE IF ~check_transaction_access(t, a)
           THEN /\ resp' = Answer(base, 403, "Access denied to this transaction")
                /\ UNCHANGED <<budgets, transactions>>
           ELSE LET r == TransactionService_delete(t, a, db_ok)
                IN  /\ budgets' = r.budgets
                    /\ transactions' = r.transactions
                    /\ resp' = ServiceAnswer(base, r, 204, "Transaction not found")

(***************************************************************************)
(* The resource routes over a database with one stored user of any role    *)
(* and department, departments, and a budget with at most one transaction. *)
(***************************************************************************)
\* The budget a transaction of the given type and amount leaves behind
\* (TransactionService.create on a fresh budget of total MaxAmount).
BudgetAfter(department_id, transaction_type, amount) ==
    LET spent == IF transaction_type
                       \in {TransactionType.EXPENSE, TransactionType.TRANSFER_OUT}
                 THEN amount ELSE 0
    IN  BudgetRow(department_id, MaxAmount, spent, MaxAmount - spent)

InitGuard ==
    /\ \E present \in SUBSET DeptIds :
          /\ 1 \in present
          /\ departments = [d \in DeptIds |->
                              IF d \in present THEN DepartmentRow("x") ELSE NoRow]
          /\ \E r \in RoleEnum, scope \in present \cup {None} :
                users = [u \in UserIds |->
                           IF u = 1 THEN UserRow(RoleValue[r], scope, TRUE) ELSE NoRow]
          /\ \/ /\ budgets = [b \in BudgetIds |-> NoRow]
                /\ transactions = [t \in TransactionIds |-> NoRow]
             \/ \E bd \in present :
                   \/ /\ budgets = [b \in BudgetIds |-> BudgetRow(bd, MaxAmount, 0, MaxAmount)]
                      /\ transactions = [t \in TransactionIds |-> NoRow]
                   \/ \E ty \in TransactionTypes :
                         /\ budgets = [b \in BudgetIds |-> BudgetAfter(bd, ty, 1)]
                         /\ transactions = [t \in TransactionIds |->
                                               TransactionRow(1, ty, 1)]
    /\ cache = [u \in UserIds |-> NoRow]
    /\ resp = NoResp
    /\ call = NoCall
    /\ result = Pending

NextGuard ==
    \/ \E a \in UserIds, d \in DeptIds : get_department(a, d)
    \/ \E a \in UserIds, d \in DeptIds, department_in \in DepartmentUpdates,
          db_ok \in BOOLEAN : update_department(a, d, department_in, db_ok)
    \/ \E a \in UserIds, d \in DeptIds, db_ok \in BOOLEAN : delete_department(a, d, db_ok)
    \/ \E a \in UserIds, b \in BudgetIds : get_budget(a, b)
    \/ \E a \in UserIds, b \in BudgetIds, budget_in \in BudgetUpdates,
          db_ok \in BOOLEAN : update_budget(a, b, budget_in, db_ok)
    \/ \E a \in UserIds, b \in BudgetIds, db_ok \in BOOLEAN : delete_budget(a, b, db_ok)
    \/ \E a \in UserIds, t \in TransactionIds : get_transaction(a, t)
    \/ \E a \in UserIds, t \in TransactionIds, transaction_in \in TransactionUpdates,
          db_ok \in BOOLEAN : update_transaction(a, t, transaction_in, db_ok)
    \/ \E a \in UserIds, t \in TransactionIds, db_ok \in BOOLEAN :
          delete_transaction(a, t, db_ok)

SpecGuard == InitGuard /\ [][NextGuard]_vars

(***************************************************************************)
(* The PermissionCache on its own (app/core/rbac.py, app/core/cache.py):   *)
(* calls with any role argument, a Role member or a raw string, any        *)
(* outcome of each Redis call, and entries damaged from outside.           *)
(***************************************************************************)
\* Arguments that are not members of Role: the stored string of a role
\* (what the middleware passes) and a string no role has.
RawRoles == {"admin", "auditor"}

RoleInputs == RoleEnum \cup RawRoles

\* Stored lists that set(Permission(p) for p in cached) rejects.
CorruptValues == {{"bogus"}, {"read_user", "bogus"}}

\* The JSON list get_user_permissions writes for a permission set.
Serialized(permissions) == {PermissionValue[p] : p \in permissions}

\* The entry set_cache leaves for a permission set.
FreshEntry(permissions) ==
    [exists |-> TRUE, value |-> Serialized(permissions), ttl |-> PERMISSION_TTL]

\* The return of a PermissionCache call, with the outcome of each Redis call
\* and the entry the store held for the key when the call began.
CacheResp(fn, u, role, ok_get, ok_del, ok_set, value) ==
    [route |-> fn, actor |-> None, role |-> role, target |-> u, status |-> 0,
     detail |-> "", policy |-> FALSE, value |-> value, audit |-> <<>>,
     ok_get |-> ok_get, ok_del |-> ok_del, ok_set |-> ok_set, before |-> cache[u]]

Call_get_user_permissions(u, role, ok_get, ok_del, ok_set) ==
    /\ cache' = get_user_permissions_store(cache, u, role, ok_get, ok_del, ok_set)
    /\ resp' = CacheResp("get_user_permissions", u, role, ok_get, ok_del, ok_set,
                         get_user_permissions(cache, u, role, ok_get))
    /\ UNCHANGED <<dbVars, call, result>>

Call_invalidate_user_permissions(u, ok) ==
    /\ cache' = invalidate_user_permissions(cache, u, ok)
    /\ resp' = CacheResp("invalidate_user_permissions", u, "none", TRUE, ok, TRUE, {})
    /\ UNCHANGED <<dbVars, call, result>>

\* An entry is overwritten from outside with a list that is not a list of
\* permission values.
Corrupt(u, v) ==
    /\ cache' = [cache EXCEPT ![u] = [exists |-> TRUE, value |-> v, ttl |-> PERMISSION_TTL]]
    /\ resp' = Resp("corrupt", None, u)
    /\ UNCHANGED <<dbVars, call, result>>

InitCache ==
    /\ EmptyDb
    /\ cache = [u \in UserIds |-> NoRow]
    /\ resp = NoResp
    /\ call = NoCall
    /\ result = Pending

NextCache ==
    \/ \E u \in UserIds, role \in RoleInputs, ok_get \in BOOLEAN, ok_del \in BOOLEAN,
          ok_set \in BOOLEAN :
            Call_get_user_permissions(u, role, ok_get, ok_del, ok_set)
    \/ \E u \in UserIds, ok \in BOOLEAN : Call_invalidate_user_permissions(u, ok)
    \/ \E u \in UserIds, v \in CorruptValues : Corrupt(u, v)
    \/ \E u \in UserIds : TtlExpire(u)

SpecCache == InitCache /\ [][NextCache]_vars

(***************************************************************************)
(* app/core/rbac.py require_permission and app/routers/audit.py: the one   *)
(* route behind can_manage_audit, next to the role changes and the cache.  *)
(* Audit rows are not kept in the state; whether the row log_id exists is  *)
(* an input of the request.                                                *)
(***************************************************************************)
permission_dependency_Granted(a, permission) == users[a].exists

permission_dependency_FromCache(a, permission) ==
    permission \in get_user_permissions(cache, a, Role(users[a].role), TRUE)

\* require_permission(permission).permission_dependency: TRUE when the
\* dependency returns current_user, FALSE when it raises 403.
permission_dependency(a, permission) ==
    has_permission(Role(users[a].role), permission)

\* DELETE /audit/{log_id}: the request, but for its effect on the rows of
\* audit_logs; log_found tells whether the row of log_id is stored.
delete_audit_log_request(a, log_found) ==
    /\ UNCHANGED <<dbVars, cache, call>>
    /\ resp' =
         IF AuthStatus(a) # 200
         THEN Answer(Resp("delete_audit_log", a, None), AuthStatus(a), AuthDetail(a))
         ELSE IF ~permission_dependency(a, "MANAGE_AUDIT")
         THEN Answer(Actor("delete_audit_log", a, None), 403, "Insufficient permissions")
         ELSE IF ~log_found
         THEN Answer(Actor("delete_audit_log", a, None), 404, "Audit log not found")
         ELSE Answer(Actor("delete_audit_log", a, None), 204, "")

delete_audit_log(a, log_found) ==
    delete_audit_log_request(a, log_found) /\ UNCHANGED result

NextAudit ==
    \/ \E u \in UserIds, r \in RoleEnum, ok_get \in BOOLEAN, ok_del \in BOOLEAN,
          ok_set \in BOOLEAN :
            GetUserPermissions(u, r, ok_get, ok_del, ok_set)
    \/ \E u \in UserIds, ok \in BOOLEAN : InvalidateUserPermissions(u, ok)
    \/ \E u \in UserIds : TtlExpire(u)
    \/ \E a \in UserIds, t \in UserIds, user_in \in UserUpdates, db_ok \in BOOLEAN,
          redis_ok \in BOOLEAN :
            update_user(a, t, user_in, db_ok, redis_ok)
    \/ \E a \in UserIds, log_found \in BOOLEAN : delete_audit_log(a, log_found)

SpecAudit == InitUsers /\ [][NextAudit]_vars

(***************************************************************************)
(* app/routers/auth.py (POST /auth/token), app/routers/auth_2fa.py and     *)
(* app/routers/account.py: login, the two-factor routes and the deletion   *)
(* of the own account.  A stored user carries its two-factor columns and   *)
(* last_login; datetime.utcnow() is an input that never runs backwards.    *)
(***************************************************************************)
MaxTime == 1

Times == 1..MaxTime

VerificationCodes == {"totp", "backup", "invalid"}

Tokens == {"access_token", "refresh_token"}

AccountRow(role) ==
    [exists |-> TRUE, role |-> role, department_id |-> None, is_active |-> TRUE,
     is_2fa_enabled |-> FALSE, totp_secret |-> None, backup_codes |-> None,
     last_login |-> None]

\* The response of a route that calls invalidate_user_permissions, with the
\* outcome of the Redis delete and the entry held when the request began; the
\* response of a login also tells whether the password was the user's.
AuthResp(route, actor, target, redis_ok) ==
    [route |-> route, actor |-> actor,
     role |-> IF actor # None /\ users[actor].exists THEN Role(users[actor].role)
              ELSE "none",
     target |-> target, status |-> 0, detail |-> "", policy |-> FALSE,
     value |-> {}, audit |-> <<>>, ok_del |-> redis_ok,
     before |-> IF target # None THEN cache[target] ELSE NoRow]

\* UserService.authenticate: "None", "raise" (the LOGIN audit write failed)
\* or "user".
authenticate(u, password_ok, audit_ok) ==
    IF ~users[u].exists \/ ~password_ok THEN "None"
    ELSE IF ~log_action_async(users, AuditRecord("LOGIN", "USER", u, u), audit_ok)
    THEN "raise"
    ELSE "user"

\* POST /auth/token
login_for_access_token(u, password_ok, audit_ok1, audit_ok2, redis_ok, now) ==
    LET base == AuthResp("login_for_access_token", None, u, redis_ok)
                    @@ [password_ok |-> password_ok]
        user == authenticate(u, password_ok, audit_ok1)
        failed == AuditRecord("LOGIN_FAILED", "USER", None, None)
        login == AuditRecord("LOGIN", "USER", u, u)
    IN  /\ \A v \in UserIds : users[v].exists => users[v].last_login <= now
        /\ UNCHANGED <<departments, budgets, transactions, call, result>>
        /\ IF user = "raise"
           THEN /\ resp' = Answer(base, 500, "Internal Server Error")
                /\ UNCHANGED <<users, cache>>
           ELSE IF user = "None"
           THEN /\ resp' = IF log_action_async(users, failed, audit_ok1)
                           THEN [Answer(base, 401, "Incorrect username or password")
                                    EXCEPT !.audit = <<failed>>]
                           ELSE Answer(base, 500, "Internal Server Error")
                /\ UNCHANGED <<users, cache>>
           ELSE IF ~log_action_async(users, login, audit_ok2)
           THEN /\ resp' = [Answer(base, 500, "Internal Server Error")
                               EXCEPT !.audit = <<login>>]
                /\ UNCHANGED <<users, cache>>
           ELSE /\ users' = [users EXCEPT ![u].last_login = now]
                /\ cache' = invalidate_user_permissions(cache, u, redis_ok)
                /\ resp' = [Answer(base, 200, "") EXCEPT !.value = Tokens,
                                                         !.audit = <<login, login>>]

\* POST /auth/enable-2fa
enable_2fa(a, redis_ok) ==
    LET base == AuthResp("enable_2fa", a, a, redis_ok)
    IN  /\ UNCHANGED <<departments, budgets, transactions, call, result>>
        /\ IF AuthStatus(a) # 200
           THEN /\ resp' = Answer(base, AuthStatus(a), AuthDetail(a))
                /\ UNCHANGED <<users, cache>>
           ELSE IF users[a].is_2fa_enabled
           THEN /\ resp' = Answer(base, 400, "Two-factor authentication is already enabled")
                /\ UNCHANGED <<users, cache>>
           ELSE /\ users' = [users EXCEPT ![a].totp_secret = 1, ![a].backup_codes = 1]
                /\ cache' = invalidate_user_permissions(cache, a, redis_ok)
                /\ resp' = Answer(base, 200, "")

\* POST /auth/verify-2fa
verify_2fa(a, code, redis_ok) ==
    LET base == AuthResp("verify_2fa", a, a, redis_ok)
    IN  /\ UNCHANGED <<departments, budgets, transactions, call, result>>
        /\ IF AuthStatus(a) # 200
           THEN /\ resp' = Answer(base, AuthStatus(a), AuthDetail(a))
                /\ UNCHANGED <<users, cache>>
           ELSE IF users[a].totp_secret = None
           THEN /\ resp' = Answer(base, 400, "Two-factor authentication is not enabled")
                /\ UNCHANGED <<users, cache>>
           ELSE IF code = "totp"
           THEN /\ users' = [users EXCEPT ![a].is_2fa_enabled = TRUE]
                /\ cache' = invalidate_user_permissions(cache, a, redis_ok)
                /\ resp' = Answer(base, 200, "Two-factor authentication enabled")
           ELSE IF users[a].backup_codes # None /\ code = "backup"
           THEN \* json.loads(...).filter: a list has no filter, AttributeError
                /\ resp' = Answer(base, 500, "Internal Server Error")
                /\ UNCHANGED <<users, cache>>
           ELSE /\ resp' = Answer(base, 400, "Invalid verification code")
                /\ UNCHANGED <<users, cache>>

\* POST /auth/disable-2fa
disable_2fa(a, redis_ok) ==
    LET base == AuthResp("disable_2fa", a, a, redis_ok)
    IN  /\ UNCHANGED <<departments, budgets, transactions, call, result>>
        /\ IF AuthStatus(a) # 200
           THEN /\ resp' = Answer(base, AuthStatus(a), AuthDetail(a))
                /\ UNCHANGED <<users, cache>>
           ELSE IF ~users[a].is_2fa_enabled
           THEN /\ resp' = Answer(base, 400, "Two-factor authentication is not enabled")
                /\ UNCHANGED <<users, cache>>
           ELSE /\ users' = [users EXCEPT ![a].is_2fa_enabled = FALSE,
                                          ![a].totp_secret = None,
                                          ![a].backup_codes = None]
                /\ cache' = invalidate_user_permissions(cache, a, redis_ok)
                /\ resp' = Answer(base, 200, "Two-factor authentication disabled")

\* DELETE /account
delete_account(a, password_ok, confirmation_ok, redis_ok) ==
    LET base == AuthResp("delete_account", a, a, redis_ok)
        admin_count == Cardinality({u \in UserIds : /\ users[u].exists
                                                     /\ users[u].role = "admin"
                                                     /\ users[u].is_active})
    IN  /\ UNCHANGED <<departments, budgets, transactions, call, result>>
        /\ IF AuthStatus(a) # 200
           THEN /\ resp' = Answer(base, AuthStatus(a), AuthDetail(a))
                /\ UNCHANGED <<users, cache>>
           ELSE IF ~password_ok
           THEN /\ resp' = Answer(base, 400, "Invalid password")
                /\ UNCHANGED <<users, cache>>
           ELSE IF ~confirmation_ok
           THEN /\ resp' = Answer(base, 400, "Confirmation text is incorrect")
                /\ UNCHANGED <<users, cache>>
           ELSE IF users[a].role = "admin" /\ admin_count <= 1
           THEN /\ resp' = Answer(base, 400, "Cannot delete the last admin account")
                /\ UNCHANGED <<users, cache>>
           ELSE /\ users' = [users EXCEPT ![a] = NoRow]
                /\ cache' = invalidate_user_permissions(cache, a, redis_ok)
                /\ resp' = Answer(base, 200, "Account deleted successfully")

\* The roles of the stored accounts: one that the last-admin rule is about
\* and one that it is not.
AccountRoles == {"ADMIN", "VIEWER"}

InitAuth ==
    /\ users \in [UserIds -> {AccountRow(RoleValue[r]) : r \in AccountRoles}]
    /\ departments = [d \in DeptIds |-> NoRow]
    /\ budgets = [b \in BudgetIds |-> NoRow]
    /\ transactions = [t \in TransactionIds |-> NoRow]
    /\ cache = [u \in UserIds |-> NoRow]
    /\ resp = NoResp
    /\ call = NoCall
    /\ result = Pending

NextAuth ==
    \/ \E u \in UserIds, r \in RoleEnum : GetUserPermissions(u, r, TRUE, TRUE, TRUE)
    \/ \E u \in UserIds : TtlExpire(u)
    \/ \E u \in UserIds, password_ok \in BOOLEAN, audit_ok1 \in BOOLEAN,
          audit_ok2 \in BOOLEAN, redis_ok \in BOOLEAN, now \in Times :
            login_for_access_token(u, password_ok, audit_ok1, audit_ok2, redis_ok, now)
    \/ \E a \in UserIds, redis_ok \in BOOLEAN : enable_2fa(a, redis_ok)
    \/ \E a \in UserIds, code \in VerificationCodes, redis_ok \in BOOLEAN :
            verify_2fa(a, code, redis_ok)
    \/ \E a \in UserIds, redis_ok \in BOOLEAN : disable_2fa(a, redis_ok)
    \/ \E a \in UserIds, password_ok \in BOOLEAN, confirmation_ok \in BOOLEAN,
          redis_ok \in BOOLEAN :
            delete_account(a, password_ok, confirmation_ok, redis_ok)
    \/ \E a \in UserIds, t \in UserIds, db_ok \in BOOLEAN : delete_user(a, t, db_ok)

SpecAuth == InitAuth /\ [][NextAuth]_vars

(***************************************************************************)
(* Two requests in flight at once: a get_user_permissions call, one step   *)
(* per awaited Redis operation (app/core/rbac.py 244 and 259), beside a    *)
(* UserService.update that changes a role, one step for the commit and one *)
(* for the invalidation (app/services/user.py 171 and 195).  The variable  *)
(* call holds the position and the locals of both requests.  Redis and the *)
(* database answer every call; the entries of this store are written by    *)
(* get_user_permissions alone, so none is corrupt.                         *)
(***************************************************************************)
Idle == [pc |-> "idle"]

\* The caller loads the user and passes its id and role.
get_user_permissions_begin(u) ==
    /\ call.getter.pc = "idle"
    /\ users[u].exists
    /\ call' = [call EXCEPT !.getter = [pc |-> "begun", user_id |-> u,
                                        user_role |-> Role(users[u].role)]]
    /\ UNCHANGED <<dbVars, cache, resp, result>>

\* cached = await redis_get(cache_key): a hit returns, a miss goes on.
get_user_permissions_get ==
    LET g == call.getter
    IN  /\ g.pc = "begun"
        /\ call' = [call EXCEPT !.getter =
                      IF get_user_permissions_hit(cache, g.user_id, TRUE)
                      THEN [pc |-> "returned", user_id |-> g.user_id,
                            user_role |-> g.user_role,
                            value |-> get_user_permissions(cache, g.user_id,
                                                           g.user_role, TRUE)]
                      ELSE [g EXCEPT !.pc = "missed"]]
        /\ UNCHANGED <<dbVars, cache, resp, result>>

\* permissions = get_effective_permissions(user_role); await redis_set(...)
get_user_permissions_set ==
    LET g == call.getter
        permissions == get_effective_permissions(g.user_role)
    IN  /\ g.pc = "missed"
        /\ cache' = set_cache(cache, g.user_id, Serialized(permissions),
                              PERMISSION_TTL, TRUE)
        /\ call' = [call EXCEPT !.getter =
                      [pc |-> "returned", user_id |-> g.user_id,
                       user_role |-> g.user_role, value |-> permissions]]
        /\ UNCHANGED <<dbVars, resp, result>>

\* The caller takes the returned set; the next call may begin.
get_user_permissions_end ==
    /\ call.getter.pc = "returned"
    /\ call' = [call EXCEPT !.getter = Idle]
    /\ UNCHANGED <<dbVars, cache, resp, result>>

\* UserService.update up to await db.commit(), for a body that sets a new role.
UserService_update_commit(user_id, role) ==
    /\ call.updater.pc = "idle"
    /\ users[user_id].exists
    /\ role # users[user_id].role
    /\ users' = [users EXCEPT ![user_id] = SetAttrs(users[user_id], [role |-> role])]
    /\ call' = [call EXCEPT !.updater = [pc |-> "committed", user_id |-> user_id]]
    /\ UNCHANGED <<departments, budgets, transactions, cache, resp, result>>

\* if role_changed: await PermissionCache.invalidate_user_permissions(user_id)
UserService_update_invalidate ==
    LET w == call.updater
    IN  /\ w.pc = "committed"
        /\ cache' = invalidate_user_permissions(cache, w.user_id, TRUE)
        /\ call' = [call EXCEPT !.updater = Idle]
        /\ UNCHANGED <<dbVars, resp, result>>

InitRace ==
    /\ users \in [UserIds -> {UserRow(RoleValue[r], None, TRUE) : r \in RoleEnum}]
    /\ departments = [d \in DeptIds |-> NoRow]
    /\ budgets = [b \in BudgetIds |-> NoRow]
    /\ transactions = [t \in TransactionIds |-> NoRow]
    /\ cache = [u \in UserIds |-> NoRow]
    /\ resp = NoResp
    /\ call = [getter |-> Idle, updater |-> Idle]
    /\ result = Pending

NextRace ==
    \/ \E u \in UserIds : get_user_permissions_begin(u)
    \/ get_user_permissions_get
    \/ get_user_permissions_set
    \/ get_user_permissions_end
    \/ \E u \in UserIds, role \in allowed_roles : UserService_update_commit(u, role)
    \/ UserService_update_invalidate

SpecRace == InitRace /\ [][NextRace]_vars

(***************************************************************************)
(* The create routes: POST /departments/, POST /budgets/ and               *)
(* POST /transactions/, each behind require_permission and                 *)
(* get_request_client, with DepartmentService.create, BudgetService.create *)
(* and TransactionService.create.                                          *)
(***************************************************************************)
\* The credentials a request can carry: the token of a user id (stored or
\* since deleted), no Authorization header (None), or a token that does not
\* decode to a user id.
BadToken == NumUsers + 1

Credentials == UserIds \cup {None, BadToken}

\* app/core/deps.py get_request_client: the client address and the
\* User-Agent header of the request.
Clients ==
    {[ip_address |-> "10.0.0.1", user_agent |-> "curl"],
     [ip_address |-> "10.0.0.2", user_agent |-> "Mozilla"]}

DepartmentNames == {"Physics", "Chemistry"}

DepartmentCodes == {"PHY", "CHE"}

DepartmentCreates ==
    {[name |-> n, code |-> c, description |-> "x"] :
        n \in DepartmentNames, c \in DepartmentCodes}

BudgetCreates ==
    {[department_id |-> d, total_amount |-> x] : d \in DeptIds, x \in Amounts}

TransactionCreates ==
    {[budget_id |-> b, transaction_type |-> ty, amount |-> x, description |-> s] :
        b \in BudgetIds, ty \in TransactionTypes, x \in Amounts, s \in Descriptions}

\* The primary key the database gives a new row.
NewId(table) ==
    CHOOSE i \in DOMAIN table :
        ~table[i].exists /\ \A j \in DOMAIN table : ~table[j].exists => i <= j

HasRoom(table) == \E i \in DOMAIN table : ~table[i].exists

\* Department(**department_in.dict())
Department(department_in) ==
    [exists |-> TRUE, name |-> department_in.name, code |-> department_in.code,
     description |-> department_in.description]

\* Transaction(**transaction_in.model_dump())
Transaction(transaction_in) ==
    [exists |-> TRUE, budget_id |-> transaction_in.budget_id,
     transaction_type |-> transaction_in.transaction_type,
     amount |-> transaction_in.amount, description |-> transaction_in.description]

WithClient_Anonymous(record, ip_address, user_agent) ==
    [action |-> record.action, resource_type |-> record.resource_type,
     resource_id |-> record.resource_id, user_id |-> record.user_id,
     details |-> record.details, ip_address |-> "", user_agent |-> ""]

\* log_action_async(..., ip_address=..., user_agent=...): the row with its
\* ip_address and user_agent columns.
WithClient(record, ip_address, user_agent) ==
    [action |-> record.action, resource_type |-> record.resource_type,
     resource_id |-> record.resource_id, user_id |-> record.user_id,
     details |-> record.details, ip_address |-> ip_address,
     user_agent |-> user_agent]

\* DepartmentService.get_by_code
get_by_code(code) ==
    \E d \in DeptIds : departments[d].exists /\ departments[d].code = code

\* DepartmentService.create.  The name column is unique: the commit of a
\* second department of the same name raises IntegrityError.
DepartmentService_create(department_in, user_id, ip_address, user_agent, db_ok) ==
    IF get_by_code(department_in.code)
    THEN [departments |-> departments, outcome |-> "ValueError", id |-> None,
          audit |-> <<>>]
    ELSE IF \E d \in DeptIds : departments[d].exists
                               /\ departments[d].name = department_in.name
    THEN [departments |-> departments, outcome |-> "raise", id |-> None,
          audit |-> <<>>]
    ELSE
    LET id == NewId(departments)
        department == Department(department_in)
        record == WithClient(
                      WithDetails(AuditRecord("CREATE", "DEPARTMENT", id, user_id),
                                  [name |-> department.name, code |-> department.code]),
                      ip_address, user_agent)
        logged == log_action_async(users, record, db_ok)
    IN  [departments |-> [departments EXCEPT ![id] = department],
         outcome |-> IF logged THEN "done" ELSE "raise", id |-> id,
         audit |-> IF logged THEN <<record>> ELSE <<>>]

\* BudgetService.get_by_department_and_fiscal_year, for the one fiscal year
\* of the model.
get_by_department_and_fiscal_year(department_id) ==
    \E b \in BudgetIds : budgets[b].exists /\ budgets[b].department_id = department_id

\* BudgetService.create.  budgets.department_id is a foreign key: the commit
\* of a budget of a department that is not stored raises IntegrityError.
BudgetService_create(budget_in, user_id, ip_address, user_agent, db_ok) ==
    IF get_by_department_and_fiscal_year(budget_in.department_id)
    THEN [budgets |-> budgets, outcome |-> "ValueError", id |-> None, audit |-> <<>>]
    ELSE IF ~departments[budget_in.department_id].exists
    THEN [budgets |-> budgets, outcome |-> "raise", id |-> None, audit |-> <<>>]
    ELSE
    LET id == NewId(budgets)
        budget == BudgetRow(budget_in.department_id, budget_in.total_amount, 0,
                            budget_in.total_amount)
        record == WithClient(
                      WithDetails(AuditRecord("CREATE", "BUDGET", id, user_id),
                                  [department_id |-> Str(budget.department_id),
                                   total_amount |-> Str(budget.total_amount)]),
                      ip_address, user_agent)
        logged == log_action_async(users, record, db_ok)
    IN  [budgets |-> [budgets EXCEPT ![id] = budget],
         outcome |-> IF logged THEN "done" ELSE "raise", id |-> id,
         audit |-> IF logged THEN <<record>> ELSE <<>>]

\* TransactionService.create
TransactionService_create(transaction_in, user_id, ip_address, user_agent, db_ok) ==
    LET budget == budgets[transaction_in.budget_id]
        debit == transaction_in.transaction_type
                     \in {TransactionType.EXPENSE, TransactionType.TRANSFER_OUT}
    IN  IF ~budget.exists
        THEN [transactions |-> transactions, budgets |-> budgets,
              outcome |-> "ValueError", id |-> None, audit |-> <<>>]
        ELSE IF debit /\ budget.remaining_amount < transaction_in.amount
        THEN [transactions |-> transactions, budgets |-> budgets,
              outcome |-> "ValueError", id |-> None, audit |-> <<>>]
        ELSE
        LET id == NewId(transactions)
            transaction == Transaction(transaction_in)
            amount_change == IF debit THEN transaction_in.amount
                             ELSE -transaction_in.amount
            records ==
                <<update_spent_amount_record(budgets, transaction_in.budget_id,
                                             amount_change, user_id),
                  WithClient(
                      WithDetails(AuditRecord("CREATE", "TRANSACTION", id, user_id),
                                  [budget_id |-> Str(transaction.budget_id),
                                   transaction_type |-> transaction.transaction_type,
                                   amount |-> Str(transaction.amount),
                                   description |-> transaction.description]),
                      ip_address, user_agent)>>
            audit == Logged(users, records, db_ok)
        IN  [transactions |-> [transactions EXCEPT ![id] = transaction],
             budgets |-> update_spent_amount(budgets, transaction_in.budget_id,
                                             amount_change),
             outcome |-> IF Len(audit) < Len(records) THEN "raise" ELSE "done",
             id |-> id, audit |-> audit]

\* The answer of a create route to what its service returned, with the
\* client of the request it answers.
CreateAnswer(base, client, r, detail) ==
    [(CASE r.outcome = "ValueError" -> Answer(base, 400, detail)
        [] r.outcome = "raise" -> Answer([base EXCEPT !.target = r.id], 500,
                                         "Internal Server Error")
        [] OTHER -> Answer([base EXCEPT !.target = r.id], 201, ""))
     EXCEPT !.audit = r.audit] @@ [client |-> client]

\* POST /departments/
create_department(a, department_in, client, db_ok) ==
    /\ UNCHANGED <<users, budgets, transactions, cache, call, result>>
    /\ IF AuthStatus(a) # 200
       THEN /\ resp' = Answer(Resp("create_department", a, None), AuthStatus(a),
                              AuthDetail(a))
            /\ UNCHANGED departments
       ELSE IF ~permission_dependency(a, "CREATE_DEPARTMENT")
       THEN /\ resp' = Answer(Actor("create_department", a, None), 403,
                              "Insufficient permissions")
            /\ UNCHANGED departments
       ELSE /\ get_by_code(department_in.code) \/ HasRoom(departments)
            /\ LET r == DepartmentService_create(department_in, a, client.ip_address,
                                                 client.user_agent, db_ok)
               IN  /\ departments' = r.departments
                   /\ resp' = CreateAnswer(Actor("create_department", a, None), client, r,
                                           "Department code already exists")

\* POST /budgets/
create_budget(a, budget_in, client, db_ok) ==
    /\ UNCHANGED <<users, departments, transactions, cache, call, result>>
    /\ IF AuthStatus(a) # 200
       THEN /\ resp' = Answer(Resp("create_budget", a, None), AuthStatus(a),
                              AuthDetail(a))
            /\ UNCHANGED budgets
       ELSE IF ~permission_dependency(a, "CREATE_BUDGET")
       THEN /\ resp' = Answer(Actor("create_budget", a, None), 403,
                              "Insufficient permissions")
            /\ UNCHANGED budgets
       ELSE /\ get_by_department_and_fiscal_year(budget_in.department_id)
               \/ HasRoom(budgets)
            /\ LET r == BudgetService_create(budget_in, a, client.ip_address,
                                             client.user_agent, db_ok)
               IN  /\ budgets' = r.budgets
                   /\ resp' = CreateAnswer(Actor("create_budget", a, None), client, r,
                                           "Budget already exists")

\* POST /transactions/
create_transaction(a, transaction_in, client, db_ok) ==
    /\ UNCHANGED <<users, departments, cache, call, result>>
    /\ IF AuthStatus(a) # 200
       THEN /\ resp' = Answer(Resp("create_transaction", a, None), AuthStatus(a),
                              AuthDetail(a))
            /\ UNCHANGED <<budgets, transactions>>
       ELSE IF ~permission_dependency(a, "CREATE_TRANSACTION")
       THEN /\ resp' = Answer(Actor("create_transaction", a, None), 403,
                              "Insufficient permissions")
            /\ UNCHANGED <<budgets, transactions>>
       ELSE /\ HasRoom(transactions)
            /\ LET r == TransactionService_create(transaction_in, a, client.ip_address,
                                                  client.user_agent, db_ok)
               IN  /\ budgets' = r.budgets
                   /\ transactions' = r.transactions
                   /\ resp' = CreateAnswer(Actor("create_transaction", a, None), client, r,
                                           IF budgets[transaction_in.budget_id].exists
                                           THEN "Insufficient funds in budget"
                                           ELSE "Budget not found")

(***************************************************************************)
(* The ledger: the create routes with the update and delete routes of      *)
(* budgets and transactions, over one stored user of any role and          *)
(* department, and requests of any credential.                             *)
(***************************************************************************)
InitLedger ==
    /\ \E present \in SUBSET (DeptIds \cap 1 .. 2) :
          /\ 1 \in present
          /\ departments = [d \in DeptIds |->
                              IF d \notin present THEN NoRow
                              ELSE IF d = 1
                              THEN Department([name |-> "Physics", code |-> "PHY",
                                               description |-> "x"])
                              ELSE Department([name |-> "Chemistry", code |-> "CHE",
                                               description |-> "x"])]
          /\ \E r \in RoleEnum, scope \in {None, 1} :
                users = [u \in UserIds |->
                           IF u = 1 THEN UserRow(RoleValue[r], scope, TRUE) ELSE NoRow]
    /\ budgets = [b \in BudgetIds |-> NoRow]
    /\ transactions = [t \in TransactionIds |-> NoRow]
    /\ cache = [u \in UserIds |-> NoRow]
    /\ resp = NoResp
    /\ call = NoCall
    /\ result = Pending

NextLedger ==
    \/ \E a \in Credentials, department_in \in DepartmentCreates, client \in Clients,
          db_ok \in BOOLEAN : create_department(a, department_in, client, db_ok)
    \/ \E a \in Credentials, budget_in \in BudgetCreates, client \in Clients,
          db_ok \in BOOLEAN : create_budget(a, budget_in, client, db_ok)
    \/ \E a \in Credentials, transaction_in \in TransactionCreates, client \in Clients,
          db_ok \in BOOLEAN : create_transaction(a, transaction_in, client, db_ok)
    \/ \E a \in Credentials, b \in BudgetIds, budget_in \in BudgetUpdates,
          db_ok \in BOOLEAN : update_budget(a, b, budget_in, db_ok)
    \/ \E a \in Credentials, b \in BudgetIds, db_ok \in BOOLEAN :
          delete_budget(a, b, db_ok)
    \/ \E a \in Credentials, t \in TransactionIds, transaction_in \in TransactionUpdates,
          db_ok \in BOOLEAN : update_transaction(a, t, transaction_in, db_ok)
    \/ \E a \in Credentials, t \in TransactionIds, db_ok \in BOOLEAN :
          delete_transaction(a, t, db_ok)

SpecLedger == InitLedger /\ [][NextLedger]_vars


(***************************************************************************)
(* app/routers/auth.py register with app/services/user.py                  *)
(* UserService.create: POST /auth/register.                                *)
(***************************************************************************)
Usernames == {"alice", "bob"}

Emails == {"alice@example.com", "bob@example.com"}

UserCreates ==
    {[username |-> n, email |-> e, role |-> r] :
        n \in Usernames, e \in Emails, r \in {"finance_manager", "viewer"}}

\* User(**user_data): role from the body, is_active by default, no department.
User(user_in) ==
    [exists |-> TRUE, role |-> user_in.role, department_id |-> None,
     is_active |-> TRUE, username |-> user_in.username, email |-> user_in.email]

\* select(UserModel).where(UserModel.username == ...) / (UserModel.email == ...)
username_registered(us, username) ==
    \E u \in UserIds : us[u].exists /\ us[u].username = username

email_registered(us, email) ==
    \E u \in UserIds : us[u].exists /\ us[u].email = email

\* The unique constraints of users.username and users.email: the commit of a
\* row that repeats either raises IntegrityError.
UniqueViolation_Unchecked(us, row) == FALSE

UniqueViolation(us, row) ==
    username_registered(us, row.username) \/ email_registered(us, row.email)

\* UserService.create on the users table us.
UserService_create(us, user_in, client, acting_user_id, db_ok) ==
    LET user == User(user_in)
    IN  IF UniqueViolation(us, user)
        THEN [users |-> us, outcome |-> "raise", id |-> None, audit |-> <<>>]
        ELSE
        LET id == NewId(us)
            committed == [us EXCEPT ![id] = user]
            record == WithClient(
                          WithDetails(AuditRecord("CREATE", "USER", id, acting_user_id),
                                      [username |-> user.username, email |-> user.email,
                                       role |-> user.role, is_active |-> user.is_active]),
                          client.ip_address, client.user_agent)
            logged == log_action_async(committed, record, db_ok)
        IN  [users |-> committed, outcome |-> IF logged THEN "done" ELSE "raise",
             id |-> id, audit |-> IF logged THEN <<record>> ELSE <<>>]

\* POST /auth/register
register(user_in, client, db_ok) ==
    /\ UNCHANGED <<departments, budgets, transactions, cache, call, result>>
    /\ LET base == Resp("register", None, None) @@ [client |-> client]
       IN  IF username_registered(users, user_in.username)
           THEN /\ resp' = Answer(base, 400, "Username already registered")
                /\ UNCHANGED users
           ELSE IF email_registered(users, user_in.email)
           THEN /\ resp' = Answer(base, 400, "Email already registered")
                /\ UNCHANGED users
           ELSE /\ HasRoom(users)
                /\ LET r == UserService_create(users, user_in, client, None, db_ok)
                   IN  /\ users' = r.users
                       /\ resp' = CreateAnswer(Resp("register", None, None), client, r, "")

(***************************************************************************)
(* The creations: registration with the creation of departments and        *)
(* transactions, over a stored finance manager, one department and its     *)
(* budget.                                                                 *)
(***************************************************************************)
InitCreate ==
    /\ users = [u \in UserIds |->
                  IF u = 1
                  THEN User([username |-> "alice", email |-> "alice@example.com",
                             role |-> "finance_manager"])
                  ELSE NoRow]
    /\ departments = [d \in DeptIds |->
                        IF d = 1
                        THEN Department([name |-> "Physics", code |-> "PHY",
                                         description |-> "x"])
                        ELSE NoRow]
    /\ budgets = [b \in BudgetIds |-> BudgetRow(1, MaxAmount, 0, MaxAmount)]
    /\ transactions = [t \in TransactionIds |-> NoRow]
    /\ cache = [u \in UserIds |-> NoRow]
    /\ resp = NoResp
    /\ call = NoCall
    /\ result = Pending

NextCreate ==
    \/ \E user_in \in UserCreates, client \in Clients, db_ok \in BOOLEAN :
          register(user_in, client, db_ok)
    \/ \E a \in UserIds, department_in \in DepartmentCreates, client \in Clients,
          db_ok \in BOOLEAN : create_department(a, department_in, client, db_ok)
    \/ \E a \in UserIds, transaction_in \in TransactionCreates, client \in Clients,
          db_ok \in BOOLEAN : create_transaction(a, transaction_in, client, db_ok)
    \/ \E a \in UserIds, t \in TransactionIds, db_ok \in BOOLEAN :
          delete_transaction(a, t, db_ok)

SpecCreate == InitCreate /\ [][NextCreate]_vars


(***************************************************************************)
(* Concurrent registrations: two requests to POST /auth/register, each     *)
(* taking its steps at the awaits of register (the two selects, then       *)
(* UserService.create), over an empty users table.                         *)
(***************************************************************************)
Registrants == {"first", "second"}

\* The request arrives.
register_begin(p, user_in, client) ==
    /\ call[p].pc = "idle"
    /\ call' = [call EXCEPT ![p] = [pc |-> "username", user_in |-> user_in,
                                    client |-> client]]
    /\ UNCHANGED <<dbVars, cache, resp, result>>

\* result = await db.execute(select ... username ...)
register_username(p) ==
    /\ call[p].pc = "username"
    /\ IF username_registered(users, call[p].user_in.username)
       THEN /\ resp' = Answer(Resp("register", None, None) @@ [client |-> call[p].client],
                              400, "Username already registered")
            /\ call' = [call EXCEPT ![p] = Idle]
       ELSE /\ call' = [call EXCEPT ![p].pc = "email"]
            /\ UNCHANGED resp
    /\ UNCHANGED <<dbVars, cache, result>>

\* result = await db.execute(select ... email ...)
register_email(p) ==
    /\ call[p].pc = "email"
    /\ IF email_registered(users, call[p].user_in.email)
       THEN /\ resp' = Answer(Resp("register", None, None) @@ [client |-> call[p].client],
                              400, "Email already registered")
            /\ call' = [call EXCEPT ![p] = Idle]
       ELSE /\ call' = [call EXCEPT ![p].pc = "create"]
            /\ UNCHANGED resp
    /\ UNCHANGED <<dbVars, cache, result>>

\* user = await UserService.create(...)
register_create(p, db_ok) ==
    /\ call[p].pc = "create"
    /\ HasRoom(users) \/ UniqueViolation(users, User(call[p].user_in))
    /\ LET r == UserService_create(users, call[p].user_in, call[p].client, None, db_ok)
       IN  /\ users' = r.users
           /\ resp' = CreateAnswer(Resp("register", None, None), call[p].client, r, "")
    /\ call' = [call EXCEPT ![p] = Idle]
    /\ UNCHANGED <<departments, budgets, transactions, cache, result>>

InitRegister ==
    /\ users = [u \in UserIds |-> NoRow]
    /\ departments = [d \in DeptIds |-> NoRow]
    /\ budgets = [b \in BudgetIds |-> NoRow]
    /\ transactions = [t \in TransactionIds |-> NoRow]
    /\ cache = [u \in UserIds |-> NoRow]
    /\ resp = NoResp
    /\ call = [p \in Registrants |-> Idle]
    /\ result = Pending

NextRegister ==
    \/ \E p \in Registrants, user_in \in {r \in UserCreates : r.role = "viewer"},
          client \in {c \in Clients : c.user_agent = "curl"} :
            register_begin(p, user_in, client)
    \/ \E p \in Registrants : register_username(p)
    \/ \E p \in Registrants : register_email(p)
    \/ \E p \in Registrants, db_ok \in BOOLEAN : register_create(p, db_ok)

SpecRegister == InitRegister /\ [][NextRegister]_vars


(***************************************************************************)
(* Concurrent requests on one budget: BudgetService.update in one request  *)
(* and BudgetService.update_spent_amount (called by the create, update or  *)
(* delete of a transaction) in another.  Each request has its own session: *)
(* it loads the budget row, computes from the loaded values, and its       *)
(* commit writes the columns whose value it changed.                       *)
(***************************************************************************)
MaxSpent == 2 * MaxAmount

AmountChanges == {x \in -MaxAmount .. MaxAmount : x # 0}

\* The columns of row that differ from loaded, written over stored.
Flush(stored, loaded, row) ==
    [f \in DOMAIN stored |-> IF row[f] # loaded[f] THEN row[f] ELSE stored[f]]

\* budget = await BudgetService.get_by_id(db, budget_id), for a body that
\* sets total_amount.
BudgetService_update_load(budget_id, budget_in) ==
    /\ call.updater.pc = "idle"
    /\ budgets[budget_id].exists
    /\ "total_amount" \in DOMAIN budget_in
    /\ call' = [call EXCEPT !.updater = [pc |-> "loaded", budget_id |-> budget_id,
                                         budget |-> budgets[budget_id],
                                         budget_in |-> budget_in]]
    /\ UNCHANGED <<dbVars, cache, resp, result>>

\* update_data["remaining_amount"] = total_amount - spent_amount; setattr;
\* await db.commit()
BudgetService_update_commit ==
    LET w == call.updater
    IN  /\ w.pc = "loaded"
        /\ budgets' = [budgets EXCEPT ![w.budget_id] =
                         Flush(@, w.budget,
                               SetAttrs(w.budget,
                                        [total_amount |-> w.budget_in.total_amount,
                                         remaining_amount |->
                                             w.budget_in.total_amount
                                                 - w.budget.spent_amount]))]
        /\ call' = [call EXCEPT !.updater = Idle]
        /\ UNCHANGED <<users, departments, transactions, cache, resp, result>>

\* budget = await BudgetService.get_by_id(db, budget_id) in update_spent_amount
update_spent_amount_load(budget_id, amount_change) ==
    /\ call.spender.pc = "idle"
    /\ budgets[budget_id].exists
    /\ budgets[budget_id].spent_amount + amount_change <= MaxSpent
    /\ call' = [call EXCEPT !.spender = [pc |-> "loaded", budget_id |-> budget_id,
                                         budget |-> budgets[budget_id],
                                         amount_change |-> amount_change]]
    /\ UNCHANGED <<dbVars, cache, resp, result>>

\* budget.spent_amount = ...; budget.remaining_amount = ...; await db.commit()
update_spent_amount_commit ==
    LET s == call.spender
        loaded == [b \in {s.budget_id} |-> s.budget]
    IN  /\ s.pc = "loaded"
        /\ budgets' = [budgets EXCEPT ![s.budget_id] =
                         Flush(@, s.budget,
                               update_spent_amount(loaded, s.budget_id,
                                                   s.amount_change)[s.budget_id])]
        /\ call' = [call EXCEPT !.spender = Idle]
        /\ UNCHANGED <<users, departments, transactions, cache, resp, result>>

InitBudgetRace ==
    /\ users = [u \in UserIds |-> NoRow]
    /\ departments = [d \in DeptIds |-> IF d = 1 THEN DepartmentRow("x") ELSE NoRow]
    /\ \E total_amount \in Amounts :
          budgets = [b \in BudgetIds |-> BudgetRow(1, total_amount, 0, total_amount)]
    /\ transactions = [t \in TransactionIds |-> NoRow]
    /\ cache = [u \in UserIds |-> NoRow]
    /\ resp = NoResp
    /\ call = [updater |-> Idle, spender |-> Idle]
    /\ result = Pending

NextBudgetRace ==
    \/ \E b \in BudgetIds, budget_in \in BudgetUpdates : BudgetService_update_load(b, budget_in)
    \/ BudgetService_update_commit
    \/ \E b \in BudgetIds, amount_change \in AmountChanges :
          update_spent_amount_load(b, amount_change)
    \/ update_spent_amount_commit

SpecBudgetRace == InitBudgetRace /\ [][NextBudgetRace]_vars


(***************************************************************************)
(* The rows of audit_logs, kept in result: the user routes and             *)
(* DELETE /audit/{log_id} with their effect on the table.  A request       *)
(* appends the rows it writes; deleting a user deletes the rows whose      *)
(* user_id names it (User.audit_logs, cascade="all, delete-orphan");       *)
(* delete_audit_log deletes the row it names.                              *)
(***************************************************************************)
MaxLogs == 2

audit_logs == result

\* The table after a request: the rows of the users the request deleted are
\* gone, the rows the request wrote are appended.
Stored(table) ==
    LET Kept(row) == row.user_id = None \/ users'[row.user_id].exists
    IN  SelectSeq(table, Kept) \o resp'.audit

\* await db.delete(log); await db.commit()
Removed(table, log_id) ==
    SubSeq(table, 1, log_id - 1) \o SubSeq(table, log_id + 1, Len(table))

update_user_stored(a, t, user_in, db_ok, redis_ok) ==
    /\ update_user_request(a, t, user_in, db_ok, redis_ok)
    /\ result' = Stored(audit_logs)
    /\ Len(result') <= MaxLogs

delete_user_stored(a, t, db_ok) ==
    /\ delete_user_request(a, t, db_ok)
    /\ result' = Stored(audit_logs)
    /\ Len(result') <= MaxLogs

delete_audit_log_stored(a, log_id) ==
    /\ delete_audit_log_request(a, log_id \in DOMAIN audit_logs)
    /\ result' = IF resp'.status = 204 THEN Removed(audit_logs, log_id)
                 ELSE audit_logs

InitAuditLog ==
    /\ \E r \in RoleEnum :
          users = [u \in UserIds |->
                     UserRow(RoleValue[IF u = 1 THEN "ADMIN" ELSE r], None, TRUE)]
    /\ departments = [d \in DeptIds |-> NoRow]
    /\ budgets = [b \in BudgetIds |-> NoRow]
    /\ transactions = [t \in TransactionIds |-> NoRow]
    /\ cache = [u \in UserIds |-> NoRow]
    /\ resp = NoResp
    /\ call = NoCall
    /\ result = <<>>

NextAuditLog ==
    \/ \E a \in UserIds, t \in UserIds, user_in \in UserUpdates, db_ok \in BOOLEAN,
          redis_ok \in BOOLEAN :
            update_user_stored(a, t, user_in, db_ok, redis_ok)
    \/ \E a \in UserIds, t \in UserIds, db_ok \in BOOLEAN : delete_user_stored(a, t, db_ok)
    \/ \E a \in UserIds, log_id \in 1 .. MaxLogs : delete_audit_log_stored(a, log_id)

SpecAuditLog == InitAuditLog /\ [][NextAuditLog]_vars


(***************************************************************************)
(* Properties of the pure functions, checked under SpecPolicy.             *)
(***************************************************************************)
PolicyTableBudget(role, actorScope, resourceScope) ==
    \/ role \in {"ADMIN", "FINANCE_MANAGER"}
    \/ role = "DEPARTMENT_HEAD" /\ actorScope = resourceScope

PolicyTableDepartment(role, actorScope, resourceScope) ==
    \/ role \in {"ADMIN", "FINANCE_MANAGER"}
    \/ role \in {"DEPARTMENT_HEAD", "VIEWER"} /\ actorScope = resourceScope

\* C6: the scope predicates reproduce the policy table for every role, actor
\* scope and resource scope: can_manage_budget and can_manage_transaction are
\* true iff the role is ADMIN or FINANCE_MANAGER, or DEPARTMENT_HEAD with
\* actorScope = resourceScope; can_access_department is true iff the role is
\* ADMIN or FINANCE_MANAGER, or DEPARTMENT_HEAD or VIEWER with equal scopes.
C6_PolicyTable ==
    result.done =>
        /\ call.fn \in {"can_manage_budget", "can_manage_transaction"}
              => result.value = PolicyTableBudget(call.role, call.x, call.y)
        /\ call.fn = "can_access_department"
              => result.value = PolicyTableDepartment(call.role, call.x, call.y)

C6_Witness ==
    /\ result.done
    /\ call.fn = "can_access_department"
    /\ call.role = "VIEWER"
    /\ call.x = call.y
    /\ result.value = TRUE

\* C9: for every role r, get_effective_permissions(r) is ROLE_PERMISSIONS[r]
\* united with ROLE_PERMISSIONS[s] for every s in ROLE_HIERARCHY[r], hence a
\* superset of r's direct permissions and of the permissions of every role r
\* subsumes; has_permission(r, p) is true exactly when p is in that set.
C9_Union(r) ==
    ROLE_PERMISSIONS[r] \cup UNION {ROLE_PERMISSIONS[s] : s \in ROLE_HIERARCHY[r]}

C9_EffectivePermissions ==
    result.done =>
        /\ call.fn = "get_effective_permissions"
              => /\ result.value = C9_Union(call.role)
                 /\ ROLE_PERMISSIONS[call.role] \subseteq result.value
                 /\ \A s \in ROLE_HIERARCHY[call.role] :
                        ROLE_PERMISSIONS[s] \subseteq result.value
        /\ call.fn = "has_permission"
              => result.value = (call.permission \in C9_Union(call.role))

C9_Witness ==
    /\ result.done
    /\ call.fn = "get_effective_permissions"
    /\ call.role = "FINANCE_MANAGER"
    /\ "UPDATE_BUDGET" \in result.value
    /\ "MANAGE_AUDIT" \notin result.value

\* C10: has_permission(ADMIN, p) is true for every member p of Permission.
C10_AdminHasAll ==
    (result.done /\ call.fn = "has_permission" /\ call.role = "ADMIN")
        => result.value = TRUE

C10_Witness ==
    /\ result.done
    /\ call.fn = "has_permission"
    /\ call.role = "ADMIN"
    /\ call.permission = "MANAGE_AUDIT"
    /\ result.value = TRUE

(***************************************************************************)
(* Properties of the user routes and the permission cache, checked under   *)
(* SpecUsers.                                                              *)
(***************************************************************************)
\* C1: whenever an operation changes a user's stored role, that user's cached
\* permission set is evicted inside the same operation: no step that commits
\* a role change ends, normally or with an error, with the cache still
\* holding an entry for that user.
C1_RoleChangeEvicts ==
    [][\A u \in UserIds :
          (users[u].exists /\ users'[u].exists /\ users'[u].role # users[u].role)
              => ~cache'[u].exists]_vars

\* C2: after invalidate_user_permissions(u) has returned, the next
\* get_user_permissions(u, newRole) returns exactly
\* get_effective_permissions(newRole); and invalidating a second time in a
\* row leaves the cache as the first invalidation left it.
C2_CacheCoherence ==
    [][resp.route = "invalidate_user_permissions" =>
          /\ (resp'.route = "get_user_permissions" /\ resp'.target = resp.target)
                => resp'.value = get_effective_permissions(resp'.role)
          /\ (resp'.route = "invalidate_user_permissions" /\ resp'.target = resp.target)
                => cache' = cache]_vars

\* C8: an ADMIN actor is never refused on a user update or delete; a VIEWER
\* is refused exactly when the target is another user; and for every
\* non-ADMIN role a request on a different user is answered 403 and leaves
\* the users table unchanged.
C8_UserModifyPolicy ==
    [][(/\ resp'.route \in {"update_user", "delete_user"}
        /\ AuthStatus(resp'.actor) = 200)
          => LET a == resp'.actor
                 t == resp'.target
                 role == Role(users[a].role)
             IN  /\ role = "ADMIN" => resp'.status # 403
                 /\ role = "VIEWER" => (resp'.status = 403 <=> a # t)
                 /\ (role # "ADMIN" /\ a # t)
                       => (resp'.status = 403 /\ users' = users)
                 /\ resp'.status = 403 => users' = users]_vars

C8_Witness ==
    /\ resp.route \in {"update_user", "delete_user"}
    /\ resp.role = "VIEWER"
    /\ resp.actor # resp.target
    /\ resp.status = 403
    /\ resp.detail = "Access denied to this user"
    /\ users[resp.target].exists

(***************************************************************************)
(* Properties of the resource routes, checked under SpecGuard.             *)
(***************************************************************************)
DepartmentRoutes == {"get_department", "update_department", "delete_department"}

BudgetRoutes == {"get_budget", "update_budget", "delete_budget"}

TransactionRoutes == {"get_transaction", "update_transaction", "delete_transaction"}

ResourceRoutes == DepartmentRoutes \cup BudgetRoutes \cup TransactionRoutes

\* The permission the specification requires of each modifying route.
RequiredPermission ==
    [update_department |-> "UPDATE_DEPARTMENT", delete_department |-> "DELETE_DEPARTMENT",
     update_budget |-> "UPDATE_BUDGET", delete_budget |-> "DELETE_BUDGET",
     update_transaction |-> "UPDATE_TRANSACTION",
     delete_transaction |-> "DELETE_TRANSACTION"]

\* The resource a request names exists when the request arrives.
TargetExists(route, id) ==
    IF route \in DepartmentRoutes THEN departments[id].exists
    ELSE IF route \in BudgetRoutes THEN budgets[id].exists
    ELSE transactions[id].exists

\* A stored DEPARTMENT_HEAD or VIEWER without a department.
NullScope(u) ==
    /\ users[u].exists
    /\ users[u].is_active
    /\ Role(users[u].role) \in {"DEPARTMENT_HEAD", "VIEWER"}
    /\ users[u].department_id = None

\* C3: a VIEWER of department D who requests an update of a budget of D is
\* rejected by the permission guard with 403 "Insufficient permissions", and
\* can_manage_budget is never evaluated for that request.
C3_PermissionGuardFirst ==
    [][(/\ resp'.route = "update_budget"
        /\ AuthStatus(resp'.actor) = 200
        /\ Role(users[resp'.actor].role) = "VIEWER"
        /\ budgets[resp'.target].exists
        /\ users[resp'.actor].department_id = budgets[resp'.target].department_id)
          => (/\ resp'.status = 403
              /\ resp'.detail = "Insufficient permissions"
              /\ ~resp'.policy)]_vars

\* C4: an update or delete request on a department, budget or transaction
\* changes stored state only if the actor's effective permissions contain the
\* matching UPDATE_* or DELETE_* permission; a VIEWER's request never
\* modifies or deletes a department.
C4_WriteNeedsPermission ==
    [][(/\ resp'.route \in DOMAIN RequiredPermission
        /\ dbVars' # dbVars)
          => (/\ AuthStatus(resp'.actor) = 200
              /\ has_permission(Role(users[resp'.actor].role),
                                RequiredPermission[resp'.route])
              /\ (Role(users[resp'.actor].role) = "VIEWER"
                     => departments' = departments))]_vars

\* C5: a get, update or delete request that names a department, budget or
\* transaction that does not exist is answered 404 and never 403, whatever
\* the actor's role and department.
C5_ExistenceBeforeScope ==
    [][(/\ resp'.route \in ResourceRoutes
        /\ AuthStatus(resp'.actor) = 200
        /\ ~TargetExists(resp'.route, resp'.target))
          => resp'.status = 404]_vars

\* C7: a DEPARTMENT_HEAD or VIEWER whose department_id is null is denied by
\* every scope-gated predicate and checker for every department, budget and
\* transaction, and none of its resource requests succeeds or changes
\* anything.
C7_NullScopeDenied ==
    [][/\ \A role \in {"DEPARTMENT_HEAD", "VIEWER"}, d \in DeptIds :
             /\ ~can_access_department(role, None, d)
             /\ ~can_manage_budget(role, None, d)
             /\ ~can_manage_transaction(role, None, d)
       /\ \A u \in UserIds :
             NullScope(u) =>
                /\ \A d \in DeptIds : ~check_department_access(d, u)
                /\ \A b \in BudgetIds : ~check_budget_access(b, u)
                /\ \A t \in TransactionIds : ~check_transaction_access(t, u)
       /\ (resp'.route \in ResourceRoutes /\ NullScope(resp'.actor))
             => (resp'.status \in {403, 404} /\ dbVars' = dbVars)]_vars

C7_Witness ==
    /\ resp.route = "update_budget"
    /\ resp.role = "DEPARTMENT_HEAD"
    /\ NullScope(resp.actor)
    /\ budgets[resp.target].exists
    /\ resp.policy
    /\ resp.status = 403

(***************************************************************************)
(* Properties of the PermissionCache, checked under SpecCache.             *)
(***************************************************************************)
\* The stored list can be turned into a set of Permission values.
EntryValid(e) == e.exists /\ \A v \in e.value : IsPermissionValue(v)

EntryCorrupt(e) == e.exists /\ ~EntryValid(e)

GetStep == resp'.route = "get_user_permissions" /\ resp'.before = cache[resp'.target]

C13_DegradeToRecompute ==
    [][/\ GetStep =>
             /\ resp'.status = 0
             /\ ~resp'.ok_get => resp'.value = get_effective_permissions(resp'.role)
             /\ (~resp'.ok_get /\ ~resp'.ok_set) => cache' = cache
       /\ (resp'.route = "invalidate_user_permissions"
           /\ resp'.before = cache[resp'.target]) =>
             /\ resp'.status = 0
             /\ ~resp'.ok_del => cache' = cache]_vars

\* A read that failed over an entry of another role.
C13_Witness ==
    /\ resp.route = "get_user_permissions"
    /\ ~resp.ok_get /\ ~resp.ok_set
    /\ resp.role \in RoleEnum
    /\ EntryValid(resp.before)
    /\ resp.before.value # {}
    /\ resp.before.value # Serialized(resp.value)
    /\ resp.value = get_effective_permissions(resp.role)
    /\ cache[resp.target] = resp.before

\* C18: a role value that is not a member of Role fails fast when it reaches
\* get_user_permissions: the call ends with an error, and neither returns nor
\* caches a permission set.
C18_UnrecognizedRoleFailsFast ==
    [][(GetStep /\ resp'.role \notin RoleEnum) =>
          /\ resp'.status # 0
          /\ cache' = cache]_vars

(***************************************************************************)
(* Properties of the permission guard, checked under SpecAudit.            *)
(***************************************************************************)
\* The actor of the step is an active admin whose cache entry still holds the
\* VIEWER permission set.
StaleViewerAdmin(a) ==
    /\ a # None
    /\ users[a].exists /\ users[a].is_active
    /\ users[a].role = RoleValue["ADMIN"]
    /\ cache[a] = FreshEntry(get_effective_permissions("VIEWER"))

C16_DeletionEvicts ==
    [][\A u \in UserIds :
          (/\ users[u].exists
           /\ ~users'[u].exists
           /\ resp'.route = "delete_account" => resp'.ok_del)
             => ~cache'[u].exists]_vars

EvictingRoutes == {"login_for_access_token", "verify_2fa", "disable_2fa"}

C20_LoginSurvivesAuditFailure ==
    [][(/\ resp'.route = "login_for_access_token"
        /\ users[resp'.target].exists
        /\ resp'.password_ok) =>
          /\ resp'.status = 200
          /\ resp'.value = Tokens
          /\ users'[resp'.target].last_login # None
          /\ resp'.ok_del => ~cache'[resp'.target].exists]_vars

(***************************************************************************)
(* Property of concurrent requests, checked under SpecRace.                *)
(***************************************************************************)
\* C14: however a get_user_permissions call that was given the role read
\* before a role change interleaves with the role change and its
\* invalidation, once every call has returned the cache holds, for each user,
\* no entry or the effective permissions of the user's current role.
C14_NoStaleAfterRace ==
    (call.getter.pc = "idle" /\ call.updater.pc = "idle") =>
        \A u \in UserIds :
            (users[u].exists /\ cache[u].exists) =>
                cache[u] = FreshEntry(get_effective_permissions(Role(users[u].role)))

(***************************************************************************)
(* Property of the audit rows of the update routes, checked under          *)
(* SpecGuard.                                                              *)
(***************************************************************************)
UpdateRoutes == {"update_department", "update_budget", "update_transaction"}

\* Columns no update body carries: the services compute them.
DerivedColumns == {"spent_amount", "remaining_amount"}

\* The table an update route writes, before and after the step.
UpdatedRowBefore ==
    CASE resp'.route = "update_department" -> departments[resp'.target]
      [] resp'.route = "update_budget" -> budgets[resp'.target]
      [] resp'.route = "update_transaction" -> transactions[resp'.target]

UpdatedRowAfter ==
    CASE resp'.route = "update_department" -> departments'[resp'.target]
      [] resp'.route = "update_budget" -> budgets'[resp'.target]
      [] resp'.route = "update_transaction" -> transactions'[resp'.target]

UpdatedResourceType ==
    CASE resp'.route = "update_department" -> "DEPARTMENT"
      [] resp'.route = "update_budget" -> "BUDGET"
      [] resp'.route = "update_transaction" -> "TRANSACTION"

\* C19: the audit row of a successful update holds a diff of exactly the
\* fields a body can supply whose stored values differ before and after the
\* update, each with its value before as "old" and its value after as "new";
\* an update that changes no such field appends no audit row for the
\* resource.
C19_UpdateAuditDiff ==
    [][(resp'.route \in UpdateRoutes /\ resp'.status = 200) =>
          LET before == UpdatedRowBefore
              after == UpdatedRowAfter
              differ == {f \in DOMAIN before \ DerivedColumns : before[f] # after[f]}
              rows == {i \in DOMAIN resp'.audit :
                          /\ resp'.audit[i].action = "UPDATE"
                          /\ resp'.audit[i].resource_type = UpdatedResourceType
                          /\ resp'.audit[i].resource_id = resp'.target}
          IN  /\ differ = {} => rows = {}
              /\ \A i \in rows :
                    LET details == resp'.audit[i].details
                    IN  /\ DOMAIN details = differ
                        /\ \A f \in DOMAIN details \cap differ :
                              /\ details[f].old.value = before[f]
                              /\ details[f].new.value = after[f]]_vars

(***************************************************************************)
(* Property of the user update routes, checked under SpecUsers.            *)
(***************************************************************************)
\* C26: no request to PUT /users/{id} or PUT /auth/profile made by an
\* authenticated actor whose role is not ADMIN changes the stored role of any
\* user, the actor's own included.
C26_NoRoleEscalation ==
    [][(/\ resp'.route \in {"update_user", "update_user_profile"}
        /\ resp'.role \in RoleEnum \ {"ADMIN"}) =>
          \A u \in UserIds :
              (users[u].exists /\ users'[u].exists) => users'[u].role = users[u].role]_vars

\* C30: deleting a transaction directly after its creation restores the
\* budget's spent_amount and remaining_amount to the values they had before
\* the creation (the values update_spent_amount recorded as "old" when the
\* creation adjusted the budget), for every transaction type and amount.
C30_CreateDeleteRestores ==
    [][(/\ resp.route = "create_transaction" /\ resp.status = 201
        /\ resp'.route = "delete_transaction" /\ resp'.status = 204
        /\ resp'.target = resp.target) =>
          LET b == transactions[resp.target].budget_id
              before == resp.audit[1].details
          IN  /\ budgets'[b].spent_amount = before.spent_amount.old.value
              /\ budgets'[b].remaining_amount = before.remaining_amount.old.value]_vars

\* C29: no transaction request overspends a budget: a create, update or
\* delete of a transaction never takes a budget whose remaining_amount is not
\* negative to a negative remaining_amount (these requests leave total_amount
\* alone), and a create that is rejected for insufficient funds leaves the
\* budgets and the transactions as they were.
C29_NoOverspend ==
    [][(resp'.route \in {"create_transaction", "update_transaction",
                         "delete_transaction"}) =>
          /\ \A b \in BudgetIds :
                (budgets[b].exists /\ budgets'[b].exists
                 /\ budgets[b].remaining_amount >= 0) =>
                    budgets'[b].remaining_amount >= 0
          /\ (resp'.status = 400 /\ resp'.detail = "Insufficient funds in budget") =>
                UNCHANGED <<budgets, transactions>>]_vars

\* The statuses of a request that succeeded.
Succeeded == {200, 201, 204}

\* C27: every budget or transaction that a request of a DEPARTMENT_HEAD
\* created, updated or deleted belongs to the department of that actor: the
\* budget (or the budget of the transaction) has the actor's department_id.
\* Stated for the heads that have a department.
C27_DepartmentHeadConfined ==
    [][(/\ resp'.role = "DEPARTMENT_HEAD"
        /\ users[resp'.actor].department_id # None
        /\ resp'.status \in Succeeded
        /\ resp'.route \in {"create_budget", "update_budget", "delete_budget",
                            "create_transaction", "update_transaction",
                            "delete_transaction"}) =>
          LET own == users[resp'.actor].department_id
              budget_id ==
                  CASE resp'.route = "create_transaction" ->
                           transactions'[resp'.target].budget_id
                    [] resp'.route \in {"update_transaction", "delete_transaction"} ->
                           transactions[resp'.target].budget_id
                    [] OTHER -> resp'.target
              budget == IF resp'.route = "create_budget" THEN budgets'[budget_id]
                        ELSE budgets[budget_id]
          IN  budget.department_id = own]_vars

\* The permission the require_permission dependency of each create route
\* names, and a response to an authenticated, active actor whose role lacks it.
DeclaredPermission ==
    [create_department |-> "CREATE_DEPARTMENT", create_budget |-> "CREATE_BUDGET",
     create_transaction |-> "CREATE_TRANSACTION"]

Denied(r) ==
    /\ r.route \in DOMAIN DeclaredPermission
    /\ r.actor \in UserIds
    /\ users[r.actor].exists
    /\ users[r.actor].is_active
    /\ ~has_permission(Role(users[r.actor].role), DeclaredPermission[r.route])

LedgerRoutes ==
    {"create_department", "create_budget", "create_transaction", "update_budget",
     "delete_budget", "update_transaction", "delete_transaction"}

Unauthenticated(r) ==
    /\ r.route \in LedgerRoutes
    /\ r.actor \notin UserIds \/ ~users[r.actor].exists

\* C23: a request to a protected route that carries no credential, a token
\* that does not decode, or the token of a user that is not stored is
\* answered 401 with the detail of the credential check, before any
\* permission, existence or scope guard runs (no ResourcePolicy predicate
\* ran); it writes no audit row and changes no table and no cache entry.
C23_UnauthenticatedIs401 ==
    [][Unauthenticated(resp') =>
          /\ resp'.status = 401
          /\ resp'.detail = IF resp'.actor = None THEN "Not authenticated"
                            ELSE "Could not validate credentials"
          /\ ~resp'.policy
          /\ resp'.audit = <<>>
          /\ UNCHANGED <<dbVars, cache>>]_vars

\* C23: the update of a stored budget was requested with the token of a user
\* that is not stored, and answered 401.
C23_Witness ==
    /\ resp.route = "update_budget" /\ resp.actor \in UserIds
    /\ ~users[resp.actor].exists
    /\ budgets[resp.target].exists
    /\ resp.status = 401

\* The resource type of each creation, and what the details of its audit row
\* say of the created row.
CreatedType ==
    [register |-> "USER", create_department |-> "DEPARTMENT",
     create_transaction |-> "TRANSACTION"]

Describes(details, route, id) ==
    CASE route = "register" -> details.username = users'[id].username
      [] route = "create_department" -> details.name = departments'[id].name
      [] OTHER -> /\ details.amount = Str(transactions'[id].amount)
                  /\ details.description = transactions'[id].description

\* C24: every creation of a user, department or transaction that answers 201
\* wrote an audit row with action CREATE, the resource type of the route, the
\* id of the created row, details that describe the created row (the
\* username; the department name; the transaction amount and description),
\* and the ip_address and user_agent of the request.
C24_CreateIsAudited ==
    [][(resp'.route \in DOMAIN CreatedType /\ resp'.status = 201) =>
          \E i \in DOMAIN resp'.audit :
              LET row == resp'.audit[i]
              IN  /\ row.action = "CREATE"
                  /\ row.resource_type = CreatedType[resp'.route]
                  /\ row.resource_id = resp'.target
                  /\ Describes(row.details, resp'.route, resp'.target)
                  /\ row.ip_address = resp'.client.ip_address
                  /\ row.user_agent = resp'.client.user_agent]_vars

\* C24: a registration, the creation of a department and the creation of a
\* transaction were each answered 201 (the three rows are stored and the last
\* answer is one of the creations).
C24_Witness ==
    /\ resp.route = "create_transaction" /\ resp.status = 201
    /\ transactions[resp.target].exists
    /\ \A u \in UserIds : users[u].exists
    /\ \A d \in DeptIds : departments[d].exists

\* No two stored users share a username or an email; the step in which the
\* registration p is answered.
UniqueUsers ==
    \A u, v \in UserIds :
        (u # v /\ users[u].exists /\ users[v].exists) =>
            /\ users[u].username # users[v].username
            /\ users[u].email # users[v].email

Answers(p) == call[p].pc # "idle" /\ call'[p].pc = "idle"

\* C25: registration keeps usernames and emails unique.  A registration that
\* finds its username or its email registered when it looks is answered 400;
\* a registration answered 400 stores no user and writes no audit row; and
\* however the steps of concurrent registrations interleave, no two stored
\* users share a username or an email.
C25_RegistrationUnique ==
    [][/\ UniqueUsers => UniqueUsers'
       /\ \A p \in Registrants :
             Answers(p) =>
                /\ (/\ call[p].pc = "username"
                    /\ username_registered(users, call[p].user_in.username)) =>
                       resp'.status = 400
                /\ (/\ call[p].pc = "email"
                    /\ email_registered(users, call[p].user_in.email)) =>
                       resp'.status = 400
                /\ resp'.status = 400 => (UNCHANGED users /\ resp'.audit = <<>>)]_vars

\* C25: two registrations raced for a username: one is stored and the other,
\* which found the username free, failed at its commit and stored nothing.
C25_Witness ==
    /\ \A p \in Registrants : call[p].pc = "idle"
    /\ resp.route = "register" /\ resp.status = 500 /\ resp.target = None
    /\ \E u \in UserIds : users[u].exists

\* C28: however completed budget updates and the spent-amount adjustments of
\* transaction requests interleave, once no request is in flight every
\* budget has remaining_amount = total_amount - spent_amount and
\* spent_amount >= 0.
C28_BudgetBalanced ==
    (call.updater.pc = "idle" /\ call.spender.pc = "idle") =>
        \A b \in BudgetIds :
            budgets[b].exists =>
                /\ budgets[b].remaining_amount
                       = budgets[b].total_amount - budgets[b].spent_amount
                /\ budgets[b].spent_amount >= 0

\* Every row of s is in t at the same place.
IsPrefix(s, t) == Len(s) <= Len(t) /\ SubSeq(t, 1, Len(s)) = s

\* C21: audit rows are append-only.  Every request but a DELETE
\* /audit/{log_id} answered 204 leaves every stored audit row in place and
\* unchanged (it may append rows), the deletion of the user a row names
\* included; and a DELETE /audit/{log_id} answered 204 was made by an actor
\* whose role has MANAGE_AUDIT.
C21_AuditAppendOnly ==
    [][IF resp'.route = "delete_audit_log" /\ resp'.status = 204
       THEN has_permission(Role(users[resp'.actor].role), "MANAGE_AUDIT")
       ELSE IsPrefix(audit_logs, audit_logs')]_vars

=============================================================================
